---- MODULE Spec2Model ----
(***************************************************************************)
(* eslint-plugin-aumos-governance: the five lint rules and the helpers of   *)
(* utils.ts, run by an ESLint-style traversal over one parsed file.         *)
(*                                                                          *)
(* A file is a sequence of nodes in pre-order (= source order); node 0 is   *)
(* the Program root.  One rule is enabled per run; the traversal enters the *)
(* nodes in order and calls the rule's listener on the node types it        *)
(* registered for.                                                          *)
(***************************************************************************)
EXTENDS Integers, Sequences, FiniteSets, TLC

\* ------------------------------------------------------------------ bounds
MaxNodes == 4        \* nodes of a file below the Program root (core family)
MaxSmallNodes == 3   \* nodes of a file linted with caller-supplied vocabulary
MaxShapeCalls == 2   \* calls of a file of the callee-shape family
MaxLit == 7          \* largest numeric literal written in a comparison
StackLimit == 12     \* call-stack depth at which the engine raises RangeError

\* --------------------------------------------------------------- vocabulary
GOVERNANCE_OBJECT_NAMES == {"engine", "governance", "trust", "policy", "aumos"}
GOVERNANCE_METHOD_NAMES == {"check", "verify", "validate", "authorize", "permit"}
TOOL_OBJECT_NAMES == {"tool", "tools", "agent", "executor"}
TOOL_METHOD_NAMES == {"run", "execute", "invoke", "call", "dispatch"}
AUDIT_OBJECT_NAMES == {"audit", "logger", "log", "auditLog"}
AUDIT_METHOD_NAMES == {"log", "write", "record", "emit", "info", "debug", "warn", "error"}
AUDIT_FUNCTION_NAMES == {"auditLog", "auditAction", "logAction", "recordAction"}
CONSENT_OBJECT_NAMES == {"consent", "privacy", "gdpr", "permissions"}
CONSENT_METHOD_NAMES == {"check", "verify", "hasConsent", "isAllowed", "grant"}
BUDGET_OBJECT_NAMES == {"budget", "cost", "quota", "spend", "billing", "tokens"}
BUDGET_METHOD_NAMES == {"check", "verify", "canSpend", "hasQuota", "authorize", "reserve"}
DATA_ACCESS_OBJECT_NAMES == {"db", "database", "repo", "repository", "store", "user", "users", "profile", "customer"}
DATA_ACCESS_METHOD_NAMES == {"query", "find", "findOne", "findAll", "findById", "fetch", "get", "read", "select", "load"}
SPEND_OBJECT_NAMES == {"api", "openai", "anthropic", "llm", "model", "tokens", "completion", "embedding"}
SPEND_METHOD_NAMES == {"call", "chat", "complete", "generate", "embed", "use", "consume", "request", "createCompletion", "createChatCompletion"}

\* ------------------------------------------------------------------- nodes
\* The null of findEnclosingFunction / getMemberExpressionParts / getCalleeIdentifier.
NoNode == 0 - 1
NoName == "<null>"

\* A source position; loc = NoLoc stands for a node without a `loc` property.
NoLoc == [line |-> 0, column |-> 0 - 1]
Pos(l, c) == [line |-> l, column |-> c]

\* Callee of a call expression: callee.type, and for a MemberExpression the
\* types and names of callee.object / callee.property and the computed flag.
\* `text` is the source text of the callee (what getText returns).
NoCallee == [type |-> "", name |-> "", otype |-> "", oname |-> "", ptype |-> "",
             pname |-> "", computed |-> FALSE, text |-> <<>>]
IdentCallee(n) == [NoCallee EXCEPT !.type = "Identifier", !.name = n, !.text = <<n>>]
MemberCallee(o, p) ==
    [NoCallee EXCEPT !.type = "MemberExpression", !.otype = "Identifier", !.oname = o,
                     !.ptype = "Identifier", !.pname = p, !.text = <<o, ".", p>>]
\* o[p]() with p an identifier expression
ComputedCallee(o, p) ==
    [MemberCallee(o, p) EXCEPT !.computed = TRUE, !.text = <<o, "[", p, "]">>]
\* o["p"]()
ComputedLiteralCallee(o, p) ==
    [MemberCallee(o, p) EXCEPT !.computed = TRUE, !.ptype = "Literal",
                               !.text = <<o, "[\"", p, "\"]">>]
\* this.o.p() / a.o.p(): callee.object is itself a MemberExpression
ChainedCallee(o, p) ==
    [MemberCallee(o, p) EXCEPT !.otype = "MemberExpression", !.oname = "",
                               !.text = <<"a", ".", o, ".", p>>]
\* f().p(): callee.object is a CallExpression
CallObjectCallee(p) ==
    [MemberCallee("", p) EXCEPT !.otype = "CallExpression", !.text = <<"f", "()", ".", p>>]

\* Operand of a binary expression.
NoOperand == [type |-> "", name |-> <<>>, vtype |-> "", value |-> 0,
              object |-> <<>>, property |-> <<>>, loc |-> NoLoc]
IdentOperand(chars) == [NoOperand EXCEPT !.type = "Identifier", !.name = chars]
\* object / property are kept as one-element sequences holding the sub-operand
MemberOperand(o, p) == [NoOperand EXCEPT !.type = "MemberExpression",
                                         !.object = <<o>>, !.property = <<p>>]
NumberOperand(v) == [NoOperand EXCEPT !.type = "Literal", !.vtype = "number", !.value = v]
StringOperand(v) == [NoOperand EXCEPT !.type = "Literal", !.vtype = "string", !.value = v]
OtherOperand == [NoOperand EXCEPT !.type = "CallExpression"]
\* an operand position held by a nested comparison (itself a node of the file)
NestedOperand == [NoOperand EXCEPT !.type = "BinaryExpression"]

\* A node of the file; until it is placed in a tree it hangs under the Program.
NoNodeRec == [type |-> "", parent |-> 0, loc |-> NoLoc, callee |-> NoCallee,
              operator |-> "", left |-> NoOperand, right |-> NoOperand]
FunctionNode(t) == [NoNodeRec EXCEPT !.type = t]
BlockNode == [NoNodeRec EXCEPT !.type = "BlockStatement"]
CallNode(c) == [NoNodeRec EXCEPT !.type = "CallExpression", !.callee = c]
BinaryNode(op, l, r) == [NoNodeRec EXCEPT !.type = "BinaryExpression", !.operator = op,
                                         !.left = l, !.right = r]

VARIABLES
    rule,         \* the rule enabled for this run (its id)
    options,      \* context.options[0], the rule's option object
    file,         \* the parsed file: nodes 1..Len(file) in pre-order under Program
    parentLinks,  \* TRUE iff nodes carry an own enumerable `parent` property
    idx,          \* the node the traversal enters next
    reports,      \* the context.report calls made so far, in order
    crashed,      \* TRUE once a listener has thrown
    watched,      \* after an edit and re-lint: the call the edit was made for
    \* the editor extension (one document, one quick-fix request)
    languageId,   \* document.languageId
    document,     \* the document's lines
    request,      \* context.diagnostics of the code-action request
    actions,      \* the code actions provideCodeActions returned
    inserted,     \* the text the applied code action inserted
    phase,        \* "idle", "opened", "asked", "offered", "applied" or "rechecked"
    applied,      \* the code action that was applied
    published,    \* the diagnostics last published for the document
    \* the editor extension in a workspace of several documents
    documents,           \* per uri: languageId, text, isClosed
    activeTextEditor,    \* vscode.window.activeTextEditor (a uri, or NoEditor)
    visibleTextEditors,  \* vscode.window.visibleTextEditors (uris)
    configuration,       \* the settings under aumos.governance
    collection,          \* the DiagnosticCollection: per uri, NoEntry or diagnostics
    event                \* the event handled last

lintVars == <<rule, options, file, parentLinks, idx, reports, crashed, watched>>
workspaceVars == <<documents, activeTextEditor, visibleTextEditors, configuration,
                   collection, event>>
editorVars == <<languageId, document, request, actions, inserted, phase, applied,
                published, workspaceVars>>
vars == <<lintVars, editorVars>>

Rules == {"no-ungoverned-tool-call", "no-unlogged-action", "no-hardcoded-trust-level",
          "require-consent-check", "require-budget-check"}
CallRules == Rules \ {"no-hardcoded-trust-level"}

\* ------------------------------------------------------- tree accessors
Nodes == 0 .. Len(file)
NodeType(n) == IF n = 0 THEN "Program" ELSE file[n].type
ParentOf(n) == IF n = 0 THEN NoNode ELSE file[n].parent
Callee(n) == file[n].callee
HasLoc(n) == n = 0 \/ file[n].loc # NoLoc
LocOf(n) == IF n = 0 THEN Pos(1, 0) ELSE file[n].loc

\* The child nodes of n, in source order.
RECURSIVE ChildrenFrom(_, _)
ChildrenFrom(n, i) ==
    IF i > Len(file) THEN <<>>
    ELSE IF file[i].parent = n THEN <<i>> \o ChildrenFrom(n, i + 1)
    ELSE ChildrenFrom(n, i + 1)
Children(n) == ChildrenFrom(n, 1)

\* context.getAncestors(): the ancestors of n, outermost (Program) first.
RECURSIVE Ancestors(_)
Ancestors(n) == IF n = 0 THEN <<>> ELSE Append(Ancestors(file[n].parent), file[n].parent)

\* ------------------------------------------------------------ utils.ts
getMemberExpressionParts(c) ==
    IF c.otype = "Identifier" /\ c.ptype = "Identifier"
    THEN [object |-> c.oname, property |-> c.pname]
    ELSE [object |-> NoName, property |-> NoName]

getCalleeIdentifier(c) == IF c.type = "Identifier" THEN c.name ELSE NoName

\* A member callee whose parts are in the given object and method sets.
MemberMatches(c, objects, methods) ==
    /\ c.type = "MemberExpression"
    /\ getMemberExpressionParts(c).object # NoName
    /\ getMemberExpressionParts(c).object \in objects
    /\ getMemberExpressionParts(c).property \in methods

isGovernanceCheck(n) == MemberMatches(Callee(n), GOVERNANCE_OBJECT_NAMES, GOVERNANCE_METHOD_NAMES)
isToolCall(n) == MemberMatches(Callee(n), TOOL_OBJECT_NAMES, TOOL_METHOD_NAMES)
isAuditLog(n) ==
    \/ /\ getCalleeIdentifier(Callee(n)) # NoName
       /\ getCalleeIdentifier(Callee(n)) \in AUDIT_FUNCTION_NAMES
    \/ MemberMatches(Callee(n), AUDIT_OBJECT_NAMES, AUDIT_METHOD_NAMES)
isConsentCheck(n) == MemberMatches(Callee(n), CONSENT_OBJECT_NAMES, CONSENT_METHOD_NAMES)
isBudgetCheck(n) == MemberMatches(Callee(n), BUDGET_OBJECT_NAMES, BUDGET_METHOD_NAMES)
isDataAccessCall(n) == MemberMatches(Callee(n), DATA_ACCESS_OBJECT_NAMES, DATA_ACCESS_METHOD_NAMES)
\* Faulty variant: either name being in its set is taken for a match.
isSpendCall_EitherName(n) ==
    /\ Callee(n).type = "MemberExpression"
    /\ getMemberExpressionParts(Callee(n)).object # NoName
    /\ \/ getMemberExpressionParts(Callee(n)).object \in SPEND_OBJECT_NAMES
       \/ getMemberExpressionParts(Callee(n)).property \in SPEND_METHOD_NAMES
isSpendCall(n) == MemberMatches(Callee(n), SPEND_OBJECT_NAMES, SPEND_METHOD_NAMES)

FunctionTypes == {"FunctionDeclaration", "FunctionExpression", "ArrowFunctionExpression"}

\* Scans the ancestors from the innermost outwards.
RECURSIVE findEnclosingFunctionFrom(_, _)
findEnclosingFunctionFrom(ancestors, index) ==
    IF index < 1 THEN NoNode
    ELSE IF NodeType(ancestors[index]) \in FunctionTypes THEN ancestors[index]
    ELSE findEnclosingFunctionFrom(ancestors, index - 1)
\* Faulty variant: the ancestors are scanned from the outermost inwards.
RECURSIVE findOutermostFunctionFrom(_, _)
findOutermostFunctionFrom(ancestors, index) ==
    IF index > Len(ancestors) THEN NoNode
    ELSE IF NodeType(ancestors[index]) \in FunctionTypes THEN ancestors[index]
    ELSE findOutermostFunctionFrom(ancestors, index + 1)
findEnclosingFunction_Outermost(n, ancestors) == findOutermostFunctionFrom(ancestors, 1)
\* Faulty variant: with no enclosing function, the Program is taken as the scope.
findEnclosingFunction_ProgramAsScope(n, ancestors) ==
    IF findEnclosingFunctionFrom(ancestors, Len(ancestors)) = NoNode THEN 0
    ELSE findEnclosingFunctionFrom(ancestors, Len(ancestors))
findEnclosingFunction(n, ancestors) == findEnclosingFunctionFrom(ancestors, Len(ancestors))

\* Object.keys(current) restricted to the values walk() follows: the child
\* nodes in source order, then `parent` (assigned after parsing, so the last
\* key) when nodes carry it and it is not null.
NodeKeys(current) ==
    Children(current) \o
    (IF parentLinks /\ current # 0 THEN <<ParentOf(current)>> ELSE <<>>)

\* walk(current) with the results pushed so far; over = TRUE when the
\* recursion exceeds the call stack (RangeError), which aborts the walk.
RECURSIVE walk(_, _, _), walkKeys(_, _, _)
walk(current, results, depth) ==
    IF depth > StackLimit THEN [over |-> TRUE, res |-> results]
    ELSE walkKeys(NodeKeys(current),
                  IF NodeType(current) = "CallExpression" THEN Append(results, current)
                  ELSE results,
                  depth)
walkKeys(keys, results, depth) ==
    IF keys = <<>> THEN [over |-> FALSE, res |-> results]
    ELSE LET r == walk(Head(keys), results, depth + 1)
         IN IF r.over THEN r ELSE walkKeys(Tail(keys), r.res, depth)

collectCallExpressions(n) == walk(n, <<>>, 1)

\* `loc?.start.line ?? Infinity`: a missing position compares as +infinity.
Infinity == [fin |-> FALSE, v |-> 0]
Num(v) == [fin |-> TRUE, v |-> v]
Less(a, b) == a.fin /\ (~b.fin \/ a.v < b.v)
\* Faulty variant: a missing position compares as line 0.
StartLine_ZeroDefault(n) == IF HasLoc(n) THEN Num(LocOf(n).line) ELSE Num(0)
StartLine(n) == IF HasLoc(n) THEN Num(LocOf(n).line) ELSE Infinity
StartColumn(n) == IF HasLoc(n) THEN Num(LocOf(n).column) ELSE Infinity

\* Faulty variant: a call on the target's own line never precedes it.
callPrecedes_LineOnly(call, targetNode) ==
    Less(StartLine(call), StartLine(targetNode))
callPrecedes(call, targetNode) ==
    \/ Less(StartLine(call), StartLine(targetNode))
    \/ /\ StartLine(call) = StartLine(targetNode)
       /\ Less(StartColumn(call), StartColumn(targetNode))

\* The predicate argument is a function over the file's nodes.
anyCallPrecedesNode(calls, targetNode, predicate) ==
    \E k \in 1 .. Len(calls) : predicate[calls[k]] /\ callPrecedes(calls[k], targetNode)

\* ------------------------------------------- no-hardcoded-trust-level.ts
\* Identifier names are sequences of one-character strings.
UpperToLower ==
    [c \in {"A","B","C","D","E","F","G","H","I","J","K","L","M","N","O","P","Q","R",
            "S","T","U","V","W","X","Y","Z"} |->
       CASE c = "A" -> "a" [] c = "B" -> "b" [] c = "C" -> "c" [] c = "D" -> "d"
         [] c = "E" -> "e" [] c = "F" -> "f" [] c = "G" -> "g" [] c = "H" -> "h"
         [] c = "I" -> "i" [] c = "J" -> "j" [] c = "K" -> "k" [] c = "L" -> "l"
         [] c = "M" -> "m" [] c = "N" -> "n" [] c = "O" -> "o" [] c = "P" -> "p"
         [] c = "Q" -> "q" [] c = "R" -> "r" [] c = "S" -> "s" [] c = "T" -> "t"
         [] c = "U" -> "u" [] c = "V" -> "v" [] c = "W" -> "w" [] c = "X" -> "x"
         [] c = "Y" -> "y" [] c = "Z" -> "z"]
FoldCase(c) == IF c \in DOMAIN UpperToLower THEN UpperToLower[c] ELSE c

\* The alternatives of /trust|level|tier|clearance/i
TRUST_IDENTIFIER_WORDS ==
    { <<"t","r","u","s","t">>, <<"l","e","v","e","l">>, <<"t","i","e","r">>,
      <<"c","l","e","a","r","a","n","c","e">> }

\* word occurs in name at offset k, ignoring case
OccursAt(word, name, k) ==
    /\ k + Len(word) - 1 <= Len(name)
    /\ \A j \in 1 .. Len(word) : FoldCase(name[k + j - 1]) = word[j]

TRUST_IDENTIFIER_PATTERN_test(name) ==
    \E word \in TRUST_IDENTIFIER_WORDS : \E k \in 1 .. Len(name) : OccursAt(word, name, k)

COMPARISON_OPERATORS == {"===", "!==", "==", "!=", "<", "<=", ">", ">="}

RECURSIVE nodeContainsTrustIdentifier(_)
nodeContainsTrustIdentifier(node) ==
    IF node.type = "Identifier" THEN TRUST_IDENTIFIER_PATTERN_test(node.name)
    ELSE IF node.type = "MemberExpression"
         THEN \/ nodeContainsTrustIdentifier(node.object[1])
              \/ nodeContainsTrustIdentifier(node.property[1])
    ELSE FALSE

\* Faulty variant: the upper end of the range is excluded.
isSmallNumericLiteral_Exclusive(node) ==
    /\ node.type = "Literal"
    /\ node.vtype = "number"
    /\ node.value >= 0
    /\ node.value < 5
isSmallNumericLiteral(node) ==
    /\ node.type = "Literal"
    /\ node.vtype = "number"
    /\ node.value >= 0
    /\ node.value <= 5

\* String(numericValue) for a non-negative integer: its decimal digits.
Digit(d) == CASE d = 0 -> "0" [] d = 1 -> "1" [] d = 2 -> "2" [] d = 3 -> "3" [] d = 4 -> "4"
              [] d = 5 -> "5" [] d = 6 -> "6" [] d = 7 -> "7" [] d = 8 -> "8" [] d = 9 -> "9"
RECURSIVE String(_)
String(v) == IF v < 10 THEN <<Digit(v)>> ELSE Append(String(v \div 10), Digit(v % 10))

\* An option value as the configuration file gives it: undefined (absent), a
\* number, or a string (s = its characters).
Undefined == [t |-> "undefined", v |-> 0, s |-> <<>>]
NumberValue(v) == [t |-> "number", v |-> v, s |-> <<>>]
StringValue(chars) == [t |-> "string", v |-> 0, s |-> chars]
NaN == [t |-> "NaN", v |-> 0, s |-> <<>>]

\* options.maxMagicValue ?? 5
maxMagicValue == IF options.maxMagicValue.t = "undefined" THEN NumberValue(5)
                 ELSE options.maxMagicValue

\* ToNumber, applied by `<=` to a non-number operand: a string of decimal
\* digits is that number, the empty string is 0, any other string is NaN.
DigitChars == {"0", "1", "2", "3", "4", "5", "6", "7", "8", "9"}
RECURSIVE StringToNumber(_)
StringToNumber(chars) ==
    IF chars = <<>> THEN 0
    ELSE 10 * StringToNumber(SubSeq(chars, 1, Len(chars) - 1))
         + (CHOOSE d \in 0 .. 9 : Digit(d) = chars[Len(chars)])
ToNumber(x) ==
    IF x.t = "number" THEN x
    ELSE IF x.t = "string" /\ \A i \in 1 .. Len(x.s) : x.s[i] \in DigitChars
         THEN NumberValue(StringToNumber(x.s))
    ELSE NaN

\* numericValue <= maxMagicValue (false when the right side converts to NaN)
LeqMax(numericValue, max) == ToNumber(max).t = "number" /\ numericValue <= ToNumber(max).v

\* ----------------------------------------------------------- reporting
\* context.report({ node, messageId, data }) for a node of the file.
Report(n, messageId, data) ==
    [rule |-> rule, node |-> n, side |-> "", loc |-> LocOf(n),
     messageId |-> messageId, data |-> data]
\* context.report at an operand (side = "left" / "right") of binary node n.
ReportOperand(n, side, operand, messageId, data) ==
    [rule |-> rule, node |-> n, side |-> side, loc |-> operand.loc,
     messageId |-> messageId, data |-> data]

\* ---------------------------------------------------------- the listeners
Running == ~crashed /\ idx <= Len(file)

\* How a listener ends: it reported and returned, returned silently, or threw.
Emit(r) == reports' = Append(reports, r) /\ idx' = idx + 1 /\ crashed' = crashed
Quiet == reports' = reports /\ idx' = idx + 1 /\ crashed' = crashed
Throw == reports' = reports /\ idx' = idx /\ crashed' = TRUE

\* no-ungoverned-tool-call: CallExpression(node)
ToolCallExpression ==
    /\ Running
    /\ rule = "no-ungoverned-tool-call"
    /\ NodeType(idx) = "CallExpression"
    /\ LET callNode == idx
           callExpr == Callee(idx).text
           enclosingFunction == findEnclosingFunction(callNode, Ancestors(callNode))
           allCalls == collectCallExpressions(enclosingFunction)
       IN IF ~isToolCall(callNode) THEN Quiet
          ELSE IF enclosingFunction = NoNode
               THEN Emit(Report(callNode, "missingGovernanceCheck", callExpr))
          ELSE IF allCalls.over THEN Throw
          ELSE IF ~anyCallPrecedesNode(allCalls.res, callNode, [m \in Nodes |-> isGovernanceCheck(m)])
               THEN Emit(Report(callNode, "missingGovernanceCheck", callExpr))
          ELSE Quiet
    /\ UNCHANGED <<rule, options, file, parentLinks, watched, editorVars>>

\* allCalls.some(isAuditLog)
someAuditLog(calls) == \E k \in 1 .. Len(calls) : isAuditLog(calls[k])

\* no-unlogged-action: CallExpression(node)
UnloggedCallExpression ==
    /\ Running
    /\ rule = "no-unlogged-action"
    /\ NodeType(idx) = "CallExpression"
    /\ LET callNode == idx
           callExpr == Callee(idx).text
           enclosingFunction == findEnclosingFunction(callNode, Ancestors(callNode))
           allCalls == collectCallExpressions(enclosingFunction)
       IN IF ~isGovernanceCheck(callNode) THEN Quiet
          ELSE IF enclosingFunction = NoNode
               THEN Emit(Report(callNode, "missingAuditLog", callExpr))
          ELSE IF allCalls.over THEN Throw
          ELSE IF ~someAuditLog(allCalls.res)
               THEN Emit(Report(callNode, "missingAuditLog", callExpr))
          ELSE Quiet
    /\ UNCHANGED <<rule, options, file, parentLinks, watched, editorVars>>

\* require-consent-check: CallExpression(node)
ConsentCallExpression ==
    /\ Running
    /\ rule = "require-consent-check"
    /\ NodeType(idx) = "CallExpression"
    /\ LET callNode == idx
           callExpr == Callee(idx).text
           enclosingFunction == findEnclosingFunction(callNode, Ancestors(callNode))
           allCalls == collectCallExpressions(enclosingFunction)
       IN IF ~isDataAccessCall(callNode) THEN Quiet
          ELSE IF enclosingFunction = NoNode
               THEN Emit(Report(callNode, "missingConsentCheck", callExpr))
          ELSE IF allCalls.over THEN Throw
          ELSE IF ~anyCallPrecedesNode(allCalls.res, callNode, [m \in Nodes |-> isConsentCheck(m)])
               THEN Emit(Report(callNode, "missingConsentCheck", callExpr))
          ELSE Quiet
    /\ UNCHANGED <<rule, options, file, parentLinks, watched, editorVars>>

\* require-budget-check: CallExpression(node)
BudgetCallExpression ==
    /\ Running
    /\ rule = "require-budget-check"
    /\ NodeType(idx) = "CallExpression"
    /\ LET callNode == idx
           callExpr == Callee(idx).text
           enclosingFunction == findEnclosingFunction(callNode, Ancestors(callNode))
           allCalls == collectCallExpressions(enclosingFunction)
       IN IF ~isSpendCall(callNode) THEN Quiet
          ELSE IF enclosingFunction = NoNode
               THEN Emit(Report(callNode, "missingBudgetCheck", callExpr))
          ELSE IF allCalls.over THEN Throw
          ELSE IF ~anyCallPrecedesNode(allCalls.res, callNode, [m \in Nodes |-> isBudgetCheck(m)])
               THEN Emit(Report(callNode, "missingBudgetCheck", callExpr))
          ELSE Quiet
    /\ UNCHANGED <<rule, options, file, parentLinks, watched, editorVars>>

\* Faulty variant: only Pattern A (literal on the right) is looked for.
BinaryExpressionReports_PatternAOnly(n, node, max) ==
    IF /\ node.operator \in COMPARISON_OPERATORS
       /\ nodeContainsTrustIdentifier(node.left) /\ isSmallNumericLiteral(node.right)
       /\ LeqMax(node.right.value, max)
    THEN <<ReportOperand(n, "right", node.right, "hardcodedTrustLevel",
                         String(node.right.value))>>
    ELSE <<>>

\* The body of the BinaryExpression listener on comparison `node` (the node
\* with index n): the report it makes, as a sequence of zero or one reports.
BinaryExpressionReports(n, node, max) ==
    LET left == node.left
        right == node.right
    IN IF node.operator \notin COMPARISON_OPERATORS THEN <<>>
       \* Pattern A: trust-related identifier OP numeric_literal
       ELSE IF nodeContainsTrustIdentifier(left) /\ isSmallNumericLiteral(right)
            THEN IF LeqMax(right.value, max)
                 THEN <<ReportOperand(n, "right", right, "hardcodedTrustLevel",
                                      String(right.value))>>
                 ELSE <<>>
       \* Pattern B: numeric_literal OP trust-related identifier (reversed)
       ELSE IF isSmallNumericLiteral(left) /\ nodeContainsTrustIdentifier(right)
            THEN IF LeqMax(left.value, max)
                 THEN <<ReportOperand(n, "left", left, "hardcodedTrustLevel",
                                      String(left.value))>>
                 ELSE <<>>
       ELSE <<>>

\* no-hardcoded-trust-level: BinaryExpression(node)
TrustBinaryExpression ==
    /\ Running
    /\ rule = "no-hardcoded-trust-level"
    /\ NodeType(idx) = "BinaryExpression"
    /\ reports' = reports \o BinaryExpressionReports(idx, file[idx], maxMagicValue)
    /\ idx' = idx + 1
    /\ crashed' = crashed
    /\ UNCHANGED <<rule, options, file, parentLinks, watched, editorVars>>

\* The node types a rule registers a listener for.
ListensTo(r) == IF r = "no-hardcoded-trust-level" THEN "BinaryExpression"
                ELSE "CallExpression"

\* The traversal enters a node the enabled rule has no listener for.
EnterOther ==
    /\ Running
    /\ NodeType(idx) # ListensTo(rule)
    /\ idx' = idx + 1
    /\ UNCHANGED <<rule, options, file, parentLinks, reports, crashed, watched, editorVars>>

\* ------------------------------------------------------------ the inputs
\* A file is generated from an alphabet of nodes (a sequence `kinds`) and a
\* shape: a pre-order sequence of <<kind index, parent>> pairs in which each
\* new node hangs under the Program or under a function / block still open.
IsContainer(node) == node.type \in FunctionTypes \cup {"BlockStatement"}

RECURSIVE OpenContainers(_, _, _)
OpenContainers(kinds, sh, i) ==
    IF i = 0 THEN {0}
    ELSE (IF IsContainer(kinds[sh[i][1]]) THEN {i} ELSE {})
         \cup OpenContainers(kinds, sh, sh[i][2])

RECURSIVE Shapes(_, _)
Shapes(n, kinds) ==
    IF n = 0 THEN {<<>>}
    ELSE UNION { { Append(sh, <<k, p>>) :
                     k \in 1 .. Len(kinds), p \in OpenContainers(kinds, sh, Len(sh)) } :
                 sh \in Shapes(n - 1, kinds) }
ShapesUpTo(n, kinds) == UNION { Shapes(m, kinds) : m \in 1 .. n }

\* Flat shapes: every node directly under the Program.
FlatShapesUpTo(n, kinds) ==
    UNION { { [i \in 1 .. m |-> <<ks[i], 0>>] : ks \in [1 .. m -> 1 .. Len(kinds)] } :
            m \in 1 .. n }

Tree(kinds, sh) == [i \in 1 .. Len(sh) |-> [kinds[sh[i][1]] EXCEPT !.parent = sh[i][2]]]

\* The same nodes inside one enclosing arrow function.
InFunction(t) ==
    <<FunctionNode("ArrowFunctionExpression")>> \o
    [i \in 1 .. Len(t) |-> [t[i] EXCEPT !.parent = IF @ = 0 THEN 1 ELSE @ + 1]]

\* Source positions as a formatter lays the nodes out: the Program starts on
\* line 1; a call directly after a sibling call stays on its line, twelve
\* columns further; every other node starts a new line, indented two columns
\* per nesting level. A comparison's left operand starts where the comparison
\* does, its right operand nine columns further. A comparison nested in the
\* brackets of an operand `levels[...]` starts seven columns after that operand,
\* and a right operand that follows such brackets starts after them.
NestInLeft(node) ==
    node.left.type = "MemberExpression" /\ node.left.property[1].type = "BinaryExpression"
RightOffset(node) == IF NestInLeft(node) THEN 25 ELSE 9
RECURSIVE DepthIn(_, _)
DepthIn(t, i) == IF i = 0 THEN 0 ELSE 1 + DepthIn(t, t[i].parent)

RECURSIVE Positions(_, _)
Positions(t, n) ==
    IF n = 0 THEN <<>>
    ELSE LET before == Positions(t, n - 1)
         IN IF n = 1 THEN <<Pos(2, 2 * DepthIn(t, 1))>>
            ELSE IF /\ t[n].type = "BinaryExpression" /\ t[n].parent # 0
                    /\ t[t[n].parent].type = "BinaryExpression"
                 THEN LET outer == t[n].parent
                      IN Append(before,
                                Pos(before[outer].line,
                                    before[outer].column + 7
                                      + (IF NestInLeft(t[outer]) THEN 0
                                         ELSE RightOffset(t[outer]))))
            ELSE IF /\ t[n].type = "CallExpression" /\ t[n - 1].type = "CallExpression"
                    /\ t[n].parent = t[n - 1].parent
                 THEN Append(before, Pos(before[n - 1].line, before[n - 1].column + 12))
            ELSE Append(before, Pos(before[n - 1].line + 1, 2 * DepthIn(t, n)))

Locate(t) ==
    LET at == Positions(t, Len(t))
    IN [i \in 1 .. Len(t) |->
          IF t[i].type = "BinaryExpression"
          THEN [t[i] EXCEPT !.loc = at[i], !.left.loc = at[i],
                            !.right.loc = Pos(at[i].line, at[i].column + RightOffset(t[i]))]
          ELSE [t[i] EXCEPT !.loc = at[i]]]

\* One trigger and one prerequisite of each call-based rule.
TriggerCallee(r) ==
    CASE r = "no-ungoverned-tool-call" -> MemberCallee("tool", "run")
      [] r = "no-unlogged-action" -> MemberCallee("engine", "check")
      [] r = "require-consent-check" -> MemberCallee("db", "query")
      [] r = "require-budget-check" -> MemberCallee("openai", "chat")
PrerequisiteCallee(r) ==
    CASE r = "no-ungoverned-tool-call" -> MemberCallee("engine", "check")
      [] r = "no-unlogged-action" -> MemberCallee("audit", "log")
      [] r = "require-consent-check" -> MemberCallee("consent", "check")
      [] r = "require-budget-check" -> MemberCallee("budget", "check")

NoOptions == [maxMagicValue |-> Undefined, additionalToolPatterns |-> {},
              additionalCheckPatterns |-> {}]

\* The run starts on file t with rule r enabled.
Start(r, o, t, links) ==
    /\ rule = r
    /\ options = o
    /\ file = Locate(t)
    /\ parentLinks = links

\* Core family: functions, blocks, triggers and prerequisites, plain ESTree nodes.
CoreKinds(r) ==
    << FunctionNode("FunctionDeclaration"), BlockNode,
       CallNode(TriggerCallee(r)), CallNode(PrerequisiteCallee(r)) >>
InitCore ==
    \E r \in CallRules : \E sh \in ShapesUpTo(MaxNodes, CoreKinds(r)) :
        Start(r, NoOptions, Tree(CoreKinds(r), sh), FALSE)

\* The same nodes as ESLint hands them to a rule: every node carries `parent`.
InitLinked ==
    \E r \in CallRules : \E sh \in ShapesUpTo(MaxNodes, CoreKinds(r)) :
        Start(r, NoOptions, Tree(CoreKinds(r), sh), TRUE)

\* Callee-shape family: the trigger and the prerequisite written with other
\* callee shapes, at top level or inside one function.
ShapeKinds(r) ==
    LET T == TriggerCallee(r)
        P == PrerequisiteCallee(r)
    IN << CallNode(T), CallNode(P),
          CallNode(ComputedCallee(T.oname, T.pname)),
          CallNode(ComputedLiteralCallee(T.oname, T.pname)),
          CallNode(ChainedCallee(T.oname, T.pname)),
          CallNode(CallObjectCallee(T.pname)),
          CallNode(IdentCallee(T.pname)),
          CallNode(ComputedCallee(P.oname, P.pname)),
          CallNode(ChainedCallee(P.oname, P.pname)),
          CallNode(IdentCallee("auditLog")) >>
InitShape ==
    \E r \in CallRules : \E sh \in FlatShapesUpTo(MaxShapeCalls, ShapeKinds(r)) :
        \E inside \in BOOLEAN :
            Start(r, NoOptions,
                  IF inside THEN InFunction(Tree(ShapeKinds(r), sh))
                  ELSE Tree(ShapeKinds(r), sh),
                  FALSE)

\* Caller-supplied vocabulary for no-ungoverned-tool-call (docs/ci-integration.md).
VocabularyOptions ==
    { [NoOptions EXCEPT !.additionalToolPatterns = tp, !.additionalCheckPatterns = cp] :
        tp \in {{}, {"myCustomTool"}}, cp \in {{}, {"myGovernanceCheck"}} } \ {NoOptions}
VocabularyKinds ==
    << FunctionNode("FunctionExpression"),
       CallNode(MemberCallee("tool", "run")),
       CallNode(MemberCallee("myCustomTool", "run")),
       CallNode(MemberCallee("myGovernanceCheck", "check")),
       CallNode(MemberCallee("engine", "myGovernanceCheck")) >>
InitVocabulary ==
    \E o \in VocabularyOptions : \E sh \in ShapesUpTo(MaxSmallNodes, VocabularyKinds) :
        Start("no-ungoverned-tool-call", o, Tree(VocabularyKinds, sh), FALSE)

\* Name family: calls whose receiver and method names are drawn from the
\* vocabulary tables, from other tables, and from their case variants, at top
\* level or inside one function.
NameKinds ==
    << CallNode(MemberCallee("tool", "run")), CallNode(MemberCallee("Tool", "run")),
       CallNode(MemberCallee("tool", "Run")), CallNode(MemberCallee("tool", "check")),
       CallNode(MemberCallee("engine", "check")), CallNode(MemberCallee("ENGINE", "check")),
       CallNode(MemberCallee("engine", "run")),
       CallNode(MemberCallee("audit", "log")), CallNode(MemberCallee("audit", "Log")),
       CallNode(MemberCallee("auditLog", "write")),
       CallNode(IdentCallee("auditLog")), CallNode(IdentCallee("AuditLog")),
       CallNode(IdentCallee("log")), CallNode(IdentCallee("check")),
       CallNode(MemberCallee("db", "query")), CallNode(MemberCallee("DB", "query")),
       CallNode(MemberCallee("consent", "hasConsent")),
       CallNode(MemberCallee("consent", "hasconsent")),
       CallNode(MemberCallee("openai", "chat")), CallNode(MemberCallee("OpenAI", "chat")),
       CallNode(MemberCallee("tokens", "check")), CallNode(MemberCallee("tokens", "use")),
       CallNode(MemberCallee("budget", "canSpend")) >>
InitNames ==
    \E r \in CallRules : \E sh \in FlatShapesUpTo(MaxShapeCalls, NameKinds) :
        \E inside \in BOOLEAN :
            Start(r, NoOptions,
                  IF inside THEN InFunction(Tree(NameKinds, sh)) ELSE Tree(NameKinds, sh),
                  FALSE)

\* Comparison family: one binary expression at top level.
Name_level == <<"l","e","v","e","l">>
Name_TIER == <<"T","I","E","R">>
Name_count == <<"c","o","u","n","t">>
Name_user == <<"u","s","e","r">>
Name_trust == <<"t","r","u","s","t">>
Name_TrustLevel == <<"T","r","u","s","t","L","e","v","e","l">>
Name_OPERATOR == <<"O","P","E","R","A","T","O","R">>
Name_config == <<"c","o","n","f","i","g">>
Name_size == <<"s","i","z","e">>
Operands ==
    { IdentOperand(Name_level), IdentOperand(Name_TIER), IdentOperand(Name_count),
      MemberOperand(IdentOperand(Name_user), IdentOperand(Name_trust)),
      MemberOperand(IdentOperand(Name_TrustLevel), IdentOperand(Name_OPERATOR)),
      MemberOperand(IdentOperand(Name_config), IdentOperand(Name_size)),
      StringOperand(3), OtherOperand }
    \cup { NumberOperand(v) : v \in 0 .. MaxLit }
Operators == COMPARISON_OPERATORS \cup {"+", "instanceof"}
MagicOptions ==
    { [NoOptions EXCEPT !.maxMagicValue = m] :
        m \in {Undefined, NumberValue(3), NumberValue(10),
               StringValue(<<"3">>), StringValue(<<"1", "0">>),
               StringValue(<<"h", "i", "g", "h">>)} }
InitComparison ==
    \E o \in MagicOptions, op \in Operators, l \in Operands, r \in Operands,
       links \in BOOLEAN :
        Start("no-hardcoded-trust-level", o, <<BinaryNode(op, l, r)>>, links)

\* Nested family: two comparisons, one after the other or the second inside
\* the brackets of the first's trust-like operand (`levels[tier >= 1] >= 2`).
Name_levels == <<"l","e","v","e","l","s">>
InitNested ==
    \E v \in 0 .. MaxLit, w \in 0 .. MaxLit, nested \in BOOLEAN, literalFirst \in BOOLEAN,
       links \in BOOLEAN :
        LET holder == MemberOperand(IdentOperand(Name_levels),
                                    IF nested THEN NestedOperand
                                    ELSE IdentOperand(Name_count))
            outer == IF literalFirst THEN BinaryNode("<=", NumberOperand(v), holder)
                     ELSE BinaryNode(">=", holder, NumberOperand(v))
            inner == [BinaryNode(">=", IdentOperand(Name_TIER), NumberOperand(w))
                        EXCEPT !.parent = IF nested THEN 1 ELSE 0]
        IN Start("no-hardcoded-trust-level", NoOptions, <<outer, inner>>, links)

\* Unlocated family: files of the core family in which some nodes come without
\* a `loc` property (a parser run without locations, or synthesized nodes).
Unlocate(t, missing) ==
    [i \in 1 .. Len(t) |-> IF i \in missing THEN [t[i] EXCEPT !.loc = NoLoc] ELSE t[i]]
InitUnlocated ==
    \E r \in CallRules : \E sh \in ShapesUpTo(MaxSmallNodes, CoreKinds(r)) :
        \E missing \in (SUBSET (1 .. Len(sh))) \ {{}} :
            /\ rule = r
            /\ options = NoOptions
            /\ file = Unlocate(Locate(Tree(CoreKinds(r), sh)), missing)
            /\ parentLinks = FALSE

\* ------------------------------------------------------- edit and re-lint
\* The developer's response to a report: a governance-check call is written
\* immediately before reported tool call n (as its preceding sibling), the
\* file is parsed again and the rule runs again from the top.
InsertedChecks == { MemberCallee(o, p) : o \in {"engine", "policy"}, p \in {"check", "authorize"} }
InsertBefore(t, n, node) ==
    [i \in 1 .. Len(t) + 1 |->
        IF i = n THEN [node EXCEPT !.parent = t[n].parent]
        ELSE LET old == IF i < n THEN t[i] ELSE t[i - 1]
             IN [old EXCEPT !.parent = IF @ >= n THEN @ + 1 ELSE @]]
InsertGovernanceCheck ==
    /\ ~Running
    /\ rule = "no-ungoverned-tool-call"
    /\ watched = NoNode
    /\ \E n \in 1 .. Len(file) : \E c \in InsertedChecks :
         /\ NodeType(n) = "CallExpression" /\ isToolCall(n)
         /\ \E k \in 1 .. Len(reports) : reports[k].node = n
         /\ file' = Locate(InsertBefore(file, n, CallNode(c)))
         /\ watched' = n + 1
    /\ idx' = 1
    /\ reports' = <<>>
    /\ crashed' = FALSE
    /\ UNCHANGED <<rule, options, parentLinks, editorVars>>

Next ==
    \/ ToolCallExpression
    \/ UnloggedCallExpression
    \/ ConsentCallExpression
    \/ BudgetCallExpression
    \/ TrustBinaryExpression
    \/ EnterOther
    \/ InsertGovernanceCheck

\* new vscode.Position(line, 0), lines counted from 0
Position(line) == [line |-> line, character |-> 0]

NoAction == [title |-> "", diagnostics |-> <<>>, isPreferred |-> FALSE,
             position |-> Position(0), insertText |-> <<>>]

\* package.json defaults of the settings, as the get() calls repeat them
DefaultConfiguration == [enabled |-> TRUE, checkOnSave |-> TRUE, checkOnType |-> FALSE,
                         severity |-> "warning"]
NoEditor == "<no editor>"
NoEvent == [kind |-> "none", uri |-> NoEditor]
\* No workspace is modelled: no document, an empty collection.
WorkspaceIdle ==
    /\ documents = <<>>
    /\ activeTextEditor = NoEditor
    /\ visibleTextEditors = {}
    /\ configuration = DefaultConfiguration
    /\ collection = <<>>
    /\ event = NoEvent

\* The editor extension is not in use during a lint run.
EditorIdle ==
    /\ languageId = "typescript"
    /\ document = <<>>
    /\ request = <<>>
    /\ actions = <<>>
    /\ inserted = <<>>
    /\ phase = "idle"
    /\ applied = NoAction
    /\ published = <<>>
    /\ WorkspaceIdle

Init ==
    /\ \/ InitCore
       \/ InitLinked
       \/ InitShape
       \/ InitVocabulary
       \/ InitNames
       \/ InitComparison
       \/ InitNested
       \/ InitUnlocated
    /\ idx = 1
    /\ reports = <<>>
    /\ crashed = FALSE
    /\ watched = NoNode
    /\ EditorIdle

Spec == Init /\ [][Next]_vars

\* ------------------------------------------------------------ properties
TypeOK ==
    /\ rule \in Rules
    /\ parentLinks \in BOOLEAN
    /\ idx \in 1 .. Len(file) + 1
    /\ crashed \in BOOLEAN
    /\ Len(reports) <= Len(file)
    /\ watched \in {NoNode} \cup (1 .. Len(file))

\* =================================================== the editor extension
\* vscode-extension/src/extension.ts: the quick-fix code action provider.
MaxDiagnostics == 2   \* diagnostics handed over with one code-action request

DIAGNOSTIC_SOURCE == "aumos-governance"
RULE_UNGOVERNED_OPENAI == "AUMOS-001"
RULE_UNGOVERNED_ANTHROPIC == "AUMOS-002"
RULE_UNGOVERNED_LANGCHAIN == "AUMOS-003"
RULE_MISSING_TRUST_CHECK == "AUMOS-004"
RULE_HARDCODED_TRUST_LEVEL == "AUMOS-005"
RULE_MISSING_AUDIT_LOG == "AUMOS-006"
SUPPORTED_LANGUAGES == {"typescript", "javascript", "python"}

\* A line of text: its leading whitespace and its tokens, in order. The words
\* of a comment and the contents of a string literal are one token each.
Line(indent, tokens) == [indent |-> indent, tokens |-> tokens]

buildGovernedOpenAISnippet(lang, indent) ==
    IF lang = "python"
    THEN << Line(indent, <<"#", "TODO:", "replace raw OpenAI client with GovernedOpenAI wrapper">>),
            Line(indent, <<"from", "aumos_governance", "import", "GovernedOpenAI">>),
            Line(indent, <<"governed_openai", "=", "GovernedOpenAI", "(", "trust_level", "=",
                           "2", ")">>) >>
    ELSE << Line(indent, <<"//", "TODO:", "replace raw OpenAI client with GovernedOpenAI wrapper">>),
            Line(indent, <<"import", "{", "createGovernedAI", "}", "from",
                           "'@aumos/governance'", ";">>),
            Line(indent, <<"const", "governed", "=", "createGovernedAI", "(", "{",
                           "trustLevel", ":", "2", ",", "budget", ":", "{", "daily", ":",
                           "10", "}", "}", ")", ";">>) >>

buildGovernedAnthropicSnippet(lang, indent) ==
    IF lang = "python"
    THEN << Line(indent, <<"#", "TODO:",
                           "replace raw Anthropic client with GovernedAnthropic wrapper">>),
            Line(indent, <<"from", "aumos_governance", "import", "GovernedAnthropic">>),
            Line(indent, <<"governed_anthropic", "=", "GovernedAnthropic", "(", "trust_level",
                           "=", "2", ")">>) >>
    ELSE << Line(indent, <<"//", "TODO:",
                           "replace raw Anthropic client with GovernedAnthropic wrapper">>),
            Line(indent, <<"import", "{", "createGovernedAI", "}", "from",
                           "'@aumos/governance'", ";">>),
            Line(indent, <<"const", "governed", "=", "createGovernedAI", "(", "{",
                           "provider", ":", "'anthropic'", ",", "trustLevel", ":", "2",
                           "}", ")", ";">>) >>

buildLangChainCallbackSnippet(lang, indent) ==
    IF lang = "python"
    THEN << Line(indent, <<"#", "TODO:", "add AumOS governance callback to this chain/agent">>),
            Line(indent, <<"from", "aumos_governance.langchain", "import",
                           "AumOSGovernanceCallback">>),
            Line(indent, <<"governance_callback", "=", "AumOSGovernanceCallback", "(",
                           "trust_level", "=", "2", ")">>) >>
    ELSE << Line(indent, <<"//", "TODO:", "add AumOS governance callback to this chain/agent">>),
            Line(indent, <<"import", "{", "AumOSGovernanceCallback", "}", "from",
                           "'@aumos/governance-langchain'", ";">>),
            Line(indent, <<"const", "governanceCallback", "=", "new",
                           "AumOSGovernanceCallback", "(", "{", "trustLevel", ":", "2", "}",
                           ")", ";">>) >>

buildGovernanceCheckSnippet(lang, indent) ==
    IF lang = "python"
    THEN << Line(indent, <<"#", "TODO:", "add governance check with the correct action name">>),
            Line(indent, <<"await", "engine", ".", "check", "(", "\"action-name\"", ")">>) >>
    ELSE << Line(indent, <<"//", "TODO:", "add governance check with the correct action name">>),
            Line(indent, <<"await", "engine", ".", "check", "(", "'action-name'", ")", ";">>) >>

buildTrustLevelImportSnippet(lang, indent) ==
    IF lang = "python"
    THEN << Line(indent, <<"from", "aumos_core", "import", "TrustLevel", "#",
                           "use TrustLevel.OPERATOR instead of a literal">>) >>
    ELSE << Line(indent, <<"import", "{", "TrustLevel", "}", "from", "'@aumos/core'", ";",
                           "//", "use TrustLevel.OPERATOR instead of a literal">>) >>

buildAuditLogSnippet(lang, indent) ==
    IF lang = "python"
    THEN << Line(indent, <<"await", "audit", ".", "log", "(", "{", "\"decision\"", ":",
                           "decision", ",", "\"action\"", ":", "\"TODO: action-name\"", "}",
                           ")">>) >>
    ELSE << Line(indent, <<"await", "audit", ".", "log", "(", "{", "decision", ",", "action",
                           ":", "'TODO: action-name'", "}", ")", ";">>) >>

\* A diagnostic of the request; code = NoCode stands for an undefined code.
NoCode == "<undefined>"
Diagnostic(source, code, line) == [source |-> source, code |-> code, line |-> line]

makeInsertAction(diagnostic, title, position, insertText) ==
    [title |-> title, diagnostics |-> <<diagnostic>>, isPreferred |-> TRUE,
     position |-> position, insertText |-> insertText]

\* buildFix(document, diagnostic); NoAction stands for null.
buildFix(doc, lang, diagnostic) ==
    LET ruleCode == diagnostic.code
        lineIndex == diagnostic.line
        indent == doc[lineIndex + 1].indent
        insertPosition == Position(lineIndex)
    IN IF ruleCode = NoCode THEN NoAction
       ELSE CASE ruleCode = RULE_UNGOVERNED_OPENAI ->
                   makeInsertAction(diagnostic, "Wrap with GovernedOpenAI", insertPosition,
                                    buildGovernedOpenAISnippet(lang, indent))
              [] ruleCode = RULE_UNGOVERNED_ANTHROPIC ->
                   makeInsertAction(diagnostic, "Wrap with GovernedAnthropic", insertPosition,
                                    buildGovernedAnthropicSnippet(lang, indent))
              [] ruleCode = RULE_UNGOVERNED_LANGCHAIN ->
                   makeInsertAction(diagnostic, "Add AumOS governance callback",
                                    insertPosition, buildLangChainCallbackSnippet(lang, indent))
              [] ruleCode = RULE_MISSING_TRUST_CHECK ->
                   makeInsertAction(diagnostic, "Add governance check before tool call",
                                    insertPosition, buildGovernanceCheckSnippet(lang, indent))
              [] ruleCode = RULE_HARDCODED_TRUST_LEVEL ->
                   makeInsertAction(diagnostic, "Replace magic number with TrustLevel constant",
                                    insertPosition, buildTrustLevelImportSnippet(lang, indent))
              [] ruleCode = RULE_MISSING_AUDIT_LOG ->
                   makeInsertAction(diagnostic, "Add audit log for governance decision",
                                    Position(lineIndex + 1), buildAuditLogSnippet(lang, indent))
              [] OTHER -> NoAction

\* provideCodeActions(document, _range, context): one action per diagnostic of
\* this extension that has a fix, in the order of context.diagnostics.
RECURSIVE provideCodeActions(_, _, _)
provideCodeActions(doc, lang, diagnostics) ==
    IF diagnostics = <<>> THEN <<>>
    ELSE LET diagnostic == Head(diagnostics)
             action == buildFix(doc, lang, diagnostic)
             rest == provideCodeActions(doc, lang, Tail(diagnostics))
         IN IF diagnostic.source # DIAGNOSTIC_SOURCE THEN rest
            ELSE IF action # NoAction THEN <<action>> \o rest
            ELSE rest

\* The editor asks the provider for the quick fixes of the request.
ProvideCodeActions ==
    /\ phase = "asked"
    /\ actions' = provideCodeActions(document, languageId, request)
    /\ phase' = "offered"
    /\ UNCHANGED <<lintVars, languageId, document, request, inserted, applied, published,
                   workspaceVars>>

\* The developer picks one of the offered fixes; its WorkspaceEdit inserts the
\* text at the start of the line of its position.
ApplyCodeAction ==
    /\ phase = "offered"
    /\ \E k \in 1 .. Len(actions) :
         LET at == actions[k].position.line
         IN /\ document' = SubSeq(document, 1, at) \o actions[k].insertText
                           \o SubSeq(document, at + 1, Len(document))
            /\ inserted' = actions[k].insertText
            /\ applied' = actions[k]
    /\ phase' = "applied"
    /\ UNCHANGED <<lintVars, languageId, request, actions, published, workspaceVars>>

\* The request is dismissed without applying a fix (or none was offered).
DismissCodeActions ==
    /\ phase = "offered"
    /\ phase' = "idle"
    /\ UNCHANGED <<lintVars, languageId, document, request, actions, inserted, applied,
                   published, workspaceVars>>

EditorNext ==
    \/ ProvideCodeActions
    \/ ApplyCodeAction
    \/ DismissCodeActions

\* A two-line document of a supported language and a request carrying up to
\* MaxDiagnostics diagnostics, of this extension (any code, also an undefined
\* or unknown one) or of another tool.
Indents == {"", "    ", "\t"}
FlaggedLine(indent) == Line(indent, <<"flagged", "statement">>)
RuleCodes == {RULE_UNGOVERNED_OPENAI, RULE_UNGOVERNED_ANTHROPIC, RULE_UNGOVERNED_LANGCHAIN,
              RULE_MISSING_TRUST_CHECK, RULE_HARDCODED_TRUST_LEVEL, RULE_MISSING_AUDIT_LOG}
RequestDiagnostics ==
    { Diagnostic(DIAGNOSTIC_SOURCE, code, line) :
        code \in RuleCodes \cup {NoCode, "AUMOS-999"}, line \in 0 .. 1 }
    \cup { Diagnostic("eslint", RULE_MISSING_TRUST_CHECK, line) : line \in 0 .. 1 }
EditorInit ==
    /\ rule = "no-ungoverned-tool-call" /\ options = NoOptions /\ file = <<>>
    /\ parentLinks = FALSE /\ idx = 1 /\ reports = <<>> /\ crashed = FALSE
    /\ watched = NoNode
    /\ languageId \in SUPPORTED_LANGUAGES
    /\ \E first \in Indents, second \in Indents :
           document = <<FlaggedLine(first), FlaggedLine(second)>>
    /\ \E n \in 1 .. MaxDiagnostics : request \in [1 .. n -> RequestDiagnostics]
    /\ actions = <<>>
    /\ inserted = <<>>
    /\ phase = "asked"
    /\ applied = NoAction
    /\ published = <<>>
    /\ WorkspaceIdle

EditorSpec == EditorInit /\ [][EditorNext]_vars

EditorTypeOK ==
    /\ languageId \in SUPPORTED_LANGUAGES
    /\ phase \in {"idle", "asked", "offered", "applied"}
    /\ Len(actions) <= Len(request)
    /\ Len(document) = 2 + Len(inserted)

\* ============================================================ diagnostics.ts
\* vscode-extension/src/diagnostics.ts: the line-pattern analysis of a document.
MAX_SAFE_LITERAL_TRUST_LEVEL == 3
CONTEXT_WINDOW == 40   \* checkUngovernedLangChain
LOOK_BEHIND == 20      \* checkMissingTrustCheck
LOOK_AHEAD == 15       \* checkMissingAuditLog

\* The patterns are matched on tokens. A pattern is a sequence of token sets:
\* each \s* or \s+ of the regular expression is a gap between two tokens (a
\* gap may also be a line break when several lines are joined), and a leading
\* \b is the start of a token. WORD stands for \w+.
WORD == {"\\w+"}
NonWords == {".", "(", ")", "{", "}", "[", "]", ",", ":", ";", "=", "==", "===", "!==",
                ">=", "<=", ">", "<", "//", "#", "'x'", "'deploy'", "'@aumos/governance'",
                "'@aumos/governance-langchain'", "'@aumos/core'", "'action-name'",
                "\"action-name\"", "'TODO: action-name'", "\"TODO: action-name\"",
                "'anthropic'", "\"decision\"", "\"action\"", "TODO:"}
\* The words inside a token that is a comment's text or a dotted module path.
Fragments(token) ==
    CASE token = "replace raw OpenAI client with GovernedOpenAI wrapper" ->
           {"replace", "raw", "OpenAI", "client", "with", "GovernedOpenAI", "wrapper"}
      [] token = "replace raw Anthropic client with GovernedAnthropic wrapper" ->
           {"replace", "raw", "Anthropic", "client", "with", "GovernedAnthropic", "wrapper"}
      [] token = "add AumOS governance callback to this chain/agent" ->
           {"add", "AumOS", "governance", "callback", "to", "this", "chain", "agent"}
      [] token = "add governance check with the correct action name" ->
           {"add", "governance", "check", "with", "the", "correct", "action", "name"}
      [] token = "use TrustLevel.OPERATOR instead of a literal" ->
           {"use", "TrustLevel", "OPERATOR", "instead", "of", "a", "literal"}
      [] token = "aumos_governance.langchain" -> {"aumos_governance", "langchain"}
      [] OTHER -> {token}
Fits(token, element) ==
    IF element = WORD THEN token \notin NonWords /\ Fragments(token) = {token}
    ELSE token \in element
matchAt(pattern, tokens, i) ==
    /\ i + Len(pattern) - 1 <= Len(tokens)
    /\ \A j \in 1 .. Len(pattern) : Fits(tokens[i + j - 1], pattern[j])
\* pattern.test(text)
test(pattern, tokens) == \E i \in 1 .. Len(tokens) : matchAt(pattern, tokens, i)
\* test of one of several alternatives
testAny(patterns, tokens) == \E p \in 1 .. Len(patterns) : test(patterns[p], tokens)
\* test of an alternation of names that has no \b: the name occurs anywhere,
\* also inside a comment
testNames(names, tokens) == \E i \in 1 .. Len(tokens) : Fragments(tokens[i]) \cap names # {}

OPENAI_RAW_CALL_PATTERNS ==
    << <<{"openai"}, {"."}, {"ChatCompletion"}, {"."}, {"create"}, {"("}>>,
       <<{"."}, {"chat"}, {"."}, {"completions"}, {"."}, {"create"}, {"("}>>,
       <<{"."}, {"completions"}, {"."}, {"create"}, {"("}>>,
       <<{"new"}, {"OpenAI"}, {"("}>>,
       <<{"openai"}, {"."}, {"Completion"}, {"."}, {"create"}, {"("}>> >>
GOVERNED_OPENAI_PATTERN == {"GovernedOpenAI", "governed_openai", "createGovernedAI"}
ANTHROPIC_RAW_CALL_PATTERNS ==
    << <<{"."}, {"messages"}, {"."}, {"create"}, {"("}>>,
       <<{"anthropic"}, {"."}, {"messages"}, {"."}>>,
       <<{"new"}, {"Anthropic"}, {"("}>> >>
GOVERNED_ANTHROPIC_PATTERN == {"GovernedAnthropic", "governed_anthropic"}
LANGCHAIN_TOOL_CALL_PATTERNS ==
    << <<{"tool", "chain", "agent", "executor"}, {"."}, {"run"}, {"("}>>,
       <<{"tool", "chain", "agent"}, {"."}, {"invoke"}, {"("}>>,
       <<{"tool", "chain", "agent"}, {"."}, {"execute"}, {"("}>> >>
GOVERNANCE_CALLBACK_PATTERN ==
    {"AumOSGovernanceCallback", "GovernanceCallback", "governance_callback"}
TrustCheckObjects == {"engine", "governance", "trust", "policy", "aumos"}
TrustCheckMethods == {"check", "verify", "validate", "authorize", "permit"}
TRUST_CHECK_PATTERN == <<TrustCheckObjects, {"."}, TrustCheckMethods, {"("}>>
AUDIT_LOG_PATTERN ==
    << <<{"audit", "logger"}, {"."}, {"log", "write", "record", "emit"}, {"("}>>,
       <<{"auditLog"}, {"("}>>,
       <<{"auditAction"}, {"("}>>,
       <<{"logAction"}, {"("}>> >>
\* (?:await\s+)? makes two alternatives
GOVERNANCE_DECISION_PATTERN ==
    << <<{"const", "let", "var"}, WORD, {"="}>> \o TRUST_CHECK_PATTERN,
       <<{"const", "let", "var"}, WORD, {"="}, {"await"}>> \o TRUST_CHECK_PATTERN >>
TrustLevelNames == {"trust", "trust_level", "trust_Level", "trustlevel", "trustLevel",
                    "level", "tier", "clearance"}
TrustLevelOperators == {"=", ">=", "<=", ">", "<", "===", "!=="}
\* The numerals of the documents and their parseInt(.., 10).
Numerals == [n \in {"0", "1", "2", "3", "4", "5", "9", "03", "10"} |->
               CASE n = "0" -> 0 [] n = "1" -> 1 [] n = "2" -> 2 [] n = "3" -> 3
                 [] n = "4" -> 4 [] n = "5" -> 5 [] n = "9" -> 9 [] n = "03" -> 3
                 [] n = "10" -> 10]
parseInt(numeral) == Numerals[numeral]
\* ([4-9]|\d{2,})\b
HighNumerals == {"4", "5", "9", "03", "10"}
HARDCODED_HIGH_TRUST_PATTERN ==
    << <<TrustLevelNames, TrustLevelOperators, HighNumerals>>,
       <<HighNumerals, TrustLevelOperators, TrustLevelNames>> >>
\* match[1] ?? match[2] of the first match on the line
RECURSIVE firstLiteral(_, _)
firstLiteral(tokens, i) ==
    IF matchAt(HARDCODED_HIGH_TRUST_PATTERN[1], tokens, i) THEN tokens[i + 2]
    ELSE IF matchAt(HARDCODED_HIGH_TRUST_PATTERN[2], tokens, i) THEN tokens[i]
    ELSE firstLiteral(tokens, i + 1)

resolveSeverity(configured) ==
    CASE configured = "error" -> "Error"
      [] configured = "information" -> "Information"
      [] configured = "hint" -> "Hint"
      [] OTHER -> "Warning"

\* makeDiagnostic, without the columns of the range and the message
makeDiagnostic(lineIndex, ruleCode, severity) ==
    [source |-> DIAGNOSTIC_SOURCE, code |-> ruleCode, line |-> lineIndex,
     severity |-> severity]

\* lines.join('\n') as tokens
RECURSIVE join(_)
join(lines) == IF lines = <<>> THEN <<>> ELSE Head(lines).tokens \o join(Tail(lines))

Max(a, b) == IF a >= b THEN a ELSE b
Min(a, b) == IF a <= b THEN a ELSE b
\* lines.slice(from, to), both counted from 0
slice(lines, from, to) == SubSeq(lines, from + 1, to)
precedingContext(lines, lineIndex, windowSize) ==
    LET start == Max(0, lineIndex - windowSize)
    IN join(slice(lines, start, lineIndex))
followingContext(lines, lineIndex, windowSize) ==
    LET end == Min(Len(lines), lineIndex + windowSize + 1)
    IN join(slice(lines, lineIndex + 1, end))

\* The diagnostics of one rule: one for each line index the loop pushes for,
\* in increasing order.
RECURSIVE perLine(_, _, _, _)
perLine(pushes, lineIndex, ruleCode, severity) ==
    IF lineIndex >= Len(pushes) THEN <<>>
    ELSE (IF pushes[lineIndex + 1] THEN <<makeDiagnostic(lineIndex, ruleCode, severity)>>
          ELSE <<>>)
         \o perLine(pushes, lineIndex + 1, ruleCode, severity)

checkUngovernedOpenAI(lines, fullText, severity) ==
    IF testNames(GOVERNED_OPENAI_PATTERN, fullText) THEN <<>>
    ELSE perLine([l \in 1 .. Len(lines) |-> testAny(OPENAI_RAW_CALL_PATTERNS, lines[l].tokens)],
                 0, RULE_UNGOVERNED_OPENAI, severity)

checkUngovernedAnthropic(lines, fullText, severity) ==
    IF testNames(GOVERNED_ANTHROPIC_PATTERN, fullText) THEN <<>>
    ELSE perLine([l \in 1 .. Len(lines) |->
                    testAny(ANTHROPIC_RAW_CALL_PATTERNS, lines[l].tokens)],
                 0, RULE_UNGOVERNED_ANTHROPIC, severity)

checkUngovernedLangChain(lines, severity) ==
    perLine([l \in 1 .. Len(lines) |->
               /\ testAny(LANGCHAIN_TOOL_CALL_PATTERNS, lines[l].tokens)
               /\ LET surrounding == precedingContext(lines, l - 1, CONTEXT_WINDOW)
                                     \o followingContext(lines, l - 1, CONTEXT_WINDOW)
                  IN ~testNames(GOVERNANCE_CALLBACK_PATTERN, surrounding)],
            0, RULE_UNGOVERNED_LANGCHAIN, severity)

checkMissingTrustCheck(lines, severity) ==
    perLine([l \in 1 .. Len(lines) |->
               /\ testAny(LANGCHAIN_TOOL_CALL_PATTERNS, lines[l].tokens)
               /\ LET preceding == precedingContext(lines, l - 1, LOOK_BEHIND)
                  IN ~test(TRUST_CHECK_PATTERN, preceding)],
            0, RULE_MISSING_TRUST_CHECK, severity)

checkHardcodedTrustLevel(lines, severity) ==
    perLine([l \in 1 .. Len(lines) |->
               /\ testAny(HARDCODED_HIGH_TRUST_PATTERN, lines[l].tokens)
               /\ LET literalValue == parseInt(firstLiteral(lines[l].tokens, 1))
                  IN literalValue > MAX_SAFE_LITERAL_TRUST_LEVEL],
            0, RULE_HARDCODED_TRUST_LEVEL, severity)

checkMissingAuditLog(lines, severity) ==
    perLine([l \in 1 .. Len(lines) |->
               /\ testAny(GOVERNANCE_DECISION_PATTERN, lines[l].tokens)
               /\ LET following == followingContext(lines, l - 1, LOOK_AHEAD)
                  IN ~testAny(AUDIT_LOG_PATTERN, following)],
            0, RULE_MISSING_AUDIT_LOG, severity)

\* analyzeDocument(document), the setting aumos.governance.severity given
analyzeDocument(lines, lang, configuredSeverity) ==
    IF lang # "typescript" /\ lang # "javascript" /\ lang # "python" THEN <<>>
    ELSE LET severity == resolveSeverity(configuredSeverity)
             fullText == join(lines)
         IN checkUngovernedOpenAI(lines, fullText, severity)
            \o checkUngovernedAnthropic(lines, fullText, severity)
            \o checkUngovernedLangChain(lines, severity)
            \o checkMissingTrustCheck(lines, severity)
            \o checkHardcodedTrustLevel(lines, severity)
            \o checkMissingAuditLog(lines, severity)

\* ----------------------------------------- one document, linted and fixed
\* refreshDiagnostics on the document of the active editor, the extension
\* enabled and the language supported: the collection's entry for the document
\* becomes analyzeDocument of its current text.
LintDocument ==
    /\ phase \in {"opened", "applied"}
    /\ published' = analyzeDocument(document, languageId, configuration.severity)
    /\ phase' = IF phase = "opened" THEN "analyzed" ELSE "rechecked"
    /\ UNCHANGED <<lintVars, languageId, document, request, actions, inserted, applied,
                   workspaceVars>>

\* The developer opens the lightbulb on a flagged line: the editor hands the
\* provider the published diagnostics of that line.
diagnosticsOnLine(all, lineIndex) ==
    LET at == [k \in 1 .. Len(all) |-> all[k].line = lineIndex]
        RECURSIVE pick(_)
        pick(k) == IF k > Len(all) THEN <<>>
                   ELSE (IF at[k] THEN <<all[k]>> ELSE <<>>) \o pick(k + 1)
    IN pick(1)
RequestCodeActions ==
    /\ phase = "analyzed"
    /\ \E k \in 1 .. Len(published) :
         request' = diagnosticsOnLine(published, published[k].line)
    /\ phase' = "asked"
    /\ UNCHANGED <<lintVars, languageId, document, actions, inserted, applied, published,
                   workspaceVars>>

AnalysisNext ==
    \/ LintDocument
    \/ RequestCodeActions
    \/ ProvideCodeActions
    \/ ApplyCodeAction
    \/ DismissCodeActions

\* The documents: one line a rule looks for (the subject) among filler lines,
\* and one line of context (a wrapper reference, a callback, a check, an
\* audit log, or nothing) at a distance above or below it or on the same line.
MaxLead == 1   \* filler lines above the first line of interest
Filler == Line("", <<"total", "=", "total", "+", "1", ";">>)
Fillers(n) == [i \in 1 .. n |-> Filler]
Subjects ==
    { <<"const", "reply", "=", "await", "client", ".", "chat", ".", "completions", ".",
        "create", "(", "request", ")", ";">>,
      <<"client", "=", "new", "OpenAI", "(", ")", ";">>,
      <<"anthropic", ".", "messages", ".", "create", "(", "request", ")", ";">>,
      <<"tool", ".", "run", "(", "input", ")", ";">>,
      <<"agent", ".", "invoke", "(", "input", ")", ";">>,
      <<"if", "(", "trustLevel", ">=", "4", ")", "{">>,
      <<"if", "(", "10", "<", "tier", ")", "{">>,
      <<"if", "(", "level", "==", "5", ")", "{">>,
      <<"const", "decision", "=", "await", "engine", ".", "check", "(", "'deploy'", ")",
        ";">> }
Contexts ==
    { <<>>,
      <<"import", "{", "GovernedOpenAI", "}", "from", "'@aumos/governance'", ";">>,
      <<"import", "{", "GovernedAnthropic", "}", "from", "'@aumos/governance'", ";">>,
      <<"callbacks", "=", "[", "new", "AumOSGovernanceCallback", "(", ")", "]", ";">>,
      <<"await", "policy", ".", "permit", "(", "'deploy'", ")", ";">>,
      <<"audit", ".", "log", "(", "decision", ")", ";">> }
Distances == {1} \cup { w + d : w \in {LOOK_AHEAD, LOOK_BEHIND, 30, CONTEXT_WINDOW},
                                d \in {0, 1} }
Places == {"above", "below", "before", "after"}
SubjectIndent == "    "
Document(subject, context, place, distance, lead) ==
    LET s == Line(SubjectIndent, subject)
        c == Line(SubjectIndent, context)
    IN Fillers(lead)
       \o (CASE place = "above" -> <<c>> \o Fillers(distance - 1) \o <<s>>
             [] place = "below" -> <<s>> \o Fillers(distance - 1) \o <<c>>
             [] place = "before" -> <<Line(SubjectIndent, context \o subject)>>
             [] place = "after" -> <<Line(SubjectIndent, subject \o context)>>)
       \o <<Filler>>

AnalysisInit ==
    /\ rule = "no-ungoverned-tool-call" /\ options = NoOptions /\ file = <<>>
    /\ parentLinks = FALSE /\ idx = 1 /\ reports = <<>> /\ crashed = FALSE
    /\ watched = NoNode
    /\ languageId \in SUPPORTED_LANGUAGES
    /\ \E subject \in Subjects, context \in Contexts, place \in Places,
          distance \in Distances, lead \in 0 .. MaxLead :
         /\ place \in {"before", "after"} => distance = 1
         /\ document = Document(subject, context, place, distance, lead)
    /\ request = <<>>
    /\ actions = <<>>
    /\ inserted = <<>>
    /\ phase = "opened"
    /\ applied = NoAction
    /\ published = <<>>
    /\ WorkspaceIdle

AnalysisSpec == AnalysisInit /\ [][AnalysisNext]_vars

AnalysisTypeOK ==
    /\ languageId \in SUPPORTED_LANGUAGES
    /\ phase \in {"idle", "opened", "analyzed", "asked", "offered", "applied", "rechecked"}
    /\ Len(published) <= 2 * Len(document)
    /\ \A k \in 1 .. Len(published) : published[k].line \in 0 .. Len(document) - 1

\* --------------------------------------------- the extension in a workspace
\* extension.ts: refreshDiagnostics and the event handlers activate registers.
NoEntry == [has |-> FALSE, diagnostics |-> <<>>]
Entry(diags) == [has |-> TRUE, diagnostics |-> diags]

isEnabled(config) == config.enabled
checkOnSave(config) == config.checkOnSave
checkOnType(config) == config.checkOnType

\* Faulty variant: the entry is left in place.
delete_KeepsEntry(coll, uri) == coll
\* collection.delete(uri)
delete(coll, uri) == [coll EXCEPT ![uri] = NoEntry]
\* collection.set(uri, diagnostics)
set(coll, uri, diags) == [coll EXCEPT ![uri] = Entry(diags)]

\* refreshDiagnostics(document, collection): the collection afterwards
refreshDiagnostics(docs, uri, coll, config) ==
    IF ~isEnabled(config) THEN delete(coll, uri)
    ELSE IF docs[uri].languageId \notin SUPPORTED_LANGUAGES THEN coll
    ELSE set(coll, uri, analyzeDocument(docs[uri].text, docs[uri].languageId,
                                        config.severity))

\* for (const editor of editors) refreshDiagnostics(editor.document, collection)
refreshEach(docs, editors, coll, config) ==
    [uri \in DOMAIN coll |->
        IF uri \in editors THEN refreshDiagnostics(docs, uri, coll, config)[uri]
        ELSE coll[uri]]

Open == { uri \in DOMAIN documents : ~documents[uri].isClosed }
Event(kind, uri) == [kind |-> kind, uri |-> uri]

\* A document is opened (by the user, or by another extension in the
\* background). No handler is registered for onDidOpenTextDocument.
DidOpenTextDocument ==
    /\ \E uri \in DOMAIN documents :
         /\ documents[uri].isClosed
         /\ documents' = [documents EXCEPT ![uri].isClosed = FALSE]
         /\ event' = Event("open", uri)
    /\ UNCHANGED <<lintVars, languageId, document, request, actions, inserted, phase, applied,
                   published, activeTextEditor, visibleTextEditors, configuration,
                   collection>>

\* onDidChangeActiveTextEditor: another editor (or none) gets the focus; it
\* replaces the editors shown so far or is shown beside them.
DidChangeActiveTextEditor ==
    /\ \E editor \in Open \cup {NoEditor} :
         /\ editor # activeTextEditor
         /\ activeTextEditor' = editor
         /\ \/ visibleTextEditors' = {editor} \ {NoEditor}
            \/ editor # NoEditor /\ visibleTextEditors' = visibleTextEditors \cup {editor}
         /\ collection' = IF editor # NoEditor
                          THEN refreshDiagnostics(documents, editor, collection, configuration)
                          ELSE collection
         /\ event' = Event("focus", editor)
    /\ UNCHANGED <<lintVars, languageId, document, request, actions, inserted, phase, applied,
                   published, documents, configuration>>

\* An editor without the focus is shown or hidden. No handler is registered
\* for onDidChangeVisibleTextEditors.
DidChangeVisibleTextEditors ==
    /\ activeTextEditor # NoEditor
    /\ \E uri \in Open \ {activeTextEditor} :
         /\ visibleTextEditors' = IF uri \in visibleTextEditors
                                  THEN visibleTextEditors \ {uri}
                                  ELSE visibleTextEditors \cup {uri}
         /\ event' = Event("visible", uri)
    /\ UNCHANGED <<lintVars, languageId, document, request, actions, inserted, phase, applied,
                   published, documents, activeTextEditor, configuration, collection>>

\* onDidSaveTextDocument
DidSaveTextDocument ==
    /\ \E uri \in Open :
         /\ collection' = IF checkOnSave(configuration)
                          THEN refreshDiagnostics(documents, uri, collection, configuration)
                          ELSE collection
         /\ event' = Event("save", uri)
    /\ UNCHANGED <<lintVars, languageId, document, request, actions, inserted, phase, applied,
                   published, documents, activeTextEditor, visibleTextEditors, configuration>>

\* The texts a document can have.
CleanText == <<Filler>>
FlaggedText == <<Line("", <<"tool", ".", "run", "(", "input", ")", ";">>)>>
Texts == {CleanText, FlaggedText}

\* onDidChangeTextDocument: the text of an open document is edited
DidChangeTextDocument ==
    /\ \E uri \in Open : \E text \in Texts :
         /\ text # documents[uri].text
         /\ documents' = [documents EXCEPT ![uri].text = text]
         /\ collection' = IF checkOnType(configuration)
                          THEN refreshDiagnostics(documents', uri, collection, configuration)
                          ELSE collection
         /\ event' = Event("edit", uri)
    /\ UNCHANGED <<lintVars, languageId, document, request, actions, inserted, phase, applied,
                   published, activeTextEditor, visibleTextEditors, configuration>>

\* onDidCloseTextDocument: a document no editor shows any more is closed
DidCloseTextDocument ==
    /\ \E uri \in Open \ visibleTextEditors :
         /\ documents' = [documents EXCEPT ![uri].isClosed = TRUE]
         /\ collection' = delete(collection, uri)
         /\ event' = Event("close", uri)
    /\ UNCHANGED <<lintVars, languageId, document, request, actions, inserted, phase, applied,
                   published, activeTextEditor, visibleTextEditors, configuration>>

\* onDidChangeConfiguration: a setting under aumos.governance is changed
Severities == {"warning", "error"}
Configurations ==
    [enabled : BOOLEAN, checkOnSave : BOOLEAN, checkOnType : BOOLEAN, severity : Severities]
DidChangeConfiguration ==
    /\ \E setting \in {"enabled", "checkOnSave", "checkOnType", "severity"} :
       \E config \in Configurations :
         /\ config # configuration
         /\ \A other \in DOMAIN config \ {setting} : config[other] = configuration[other]
         /\ configuration' = config
         /\ collection' = refreshEach(documents, visibleTextEditors, collection, config)
         /\ event' = Event("configuration", NoEditor)
    /\ UNCHANGED <<lintVars, languageId, document, request, actions, inserted, phase, applied,
                   published, documents, activeTextEditor, visibleTextEditors>>

\* the command aumos.governance.lint
LintCommand ==
    /\ collection' = IF activeTextEditor = NoEditor THEN collection
                     ELSE refreshDiagnostics(documents, activeTextEditor, collection,
                                             configuration)
    /\ event' = Event("lint", activeTextEditor)
    /\ UNCHANGED <<lintVars, languageId, document, request, actions, inserted, phase, applied,
                   published, documents, activeTextEditor, visibleTextEditors, configuration>>

WorkspaceNext ==
    \/ DidOpenTextDocument
    \/ DidChangeActiveTextEditor
    \/ DidChangeVisibleTextEditors
    \/ DidSaveTextDocument
    \/ DidChangeTextDocument
    \/ DidCloseTextDocument
    \/ DidChangeConfiguration
    \/ LintCommand

\* The workspace right after activate(): some documents are open, the active
\* editor's document (if there is one) has been analysed.
LanguageOf == [uri \in {"agent.ts", "notes.md"} |->
                 IF uri = "agent.ts" THEN "typescript" ELSE "markdown"]
WorkspaceInit ==
    /\ rule = "no-ungoverned-tool-call" /\ options = NoOptions /\ file = <<>>
    /\ parentLinks = FALSE /\ idx = 1 /\ reports = <<>> /\ crashed = FALSE
    /\ watched = NoNode
    /\ languageId = "typescript" /\ document = <<>> /\ request = <<>> /\ actions = <<>>
    /\ inserted = <<>> /\ phase = "idle" /\ applied = NoAction /\ published = <<>>
    /\ \E closed \in SUBSET DOMAIN LanguageOf : \E texts \in [DOMAIN LanguageOf -> Texts] :
         documents = [uri \in DOMAIN LanguageOf |->
                        [languageId |-> LanguageOf[uri], text |-> texts[uri],
                         isClosed |-> uri \in closed]]
    /\ activeTextEditor \in Open \cup {NoEditor}
    /\ visibleTextEditors = {activeTextEditor} \ {NoEditor}
    /\ configuration \in Configurations
    /\ collection = LET empty == [uri \in DOMAIN documents |-> NoEntry]
                    IN IF activeTextEditor = NoEditor THEN empty
                       ELSE refreshDiagnostics(documents, activeTextEditor, empty,
                                               configuration)
    /\ event = Event("activate", activeTextEditor)

WorkspaceSpec == WorkspaceInit /\ [][WorkspaceNext]_vars

WorkspaceTypeOK ==
    /\ activeTextEditor \in Open \cup {NoEditor}
    /\ visibleTextEditors \subseteq Open
    /\ activeTextEditor # NoEditor => activeTextEditor \in visibleTextEditors
    /\ configuration \in Configurations
    /\ DOMAIN collection = DOMAIN documents

\* ---------------------------------------------- vocabulary of the claims
\* The listener has been called on node n (and has returned, or has thrown).
Entered(n) == n \in 1 .. Len(file) /\ (n < idx \/ (crashed /\ n = idx))
\* The listener has been called on node n and has returned.
Completed(n) == n \in 1 .. Len(file) /\ n < idx

ReportsAt(n) == Cardinality({ k \in 1 .. Len(reports) : reports[k].node = n })

\* The nearest function-like ancestor of n, by the parent chain.
RECURSIVE NearestFunction(_)
NearestFunction(n) ==
    IF n = 0 THEN NoNode
    ELSE IF NodeType(ParentOf(n)) \in FunctionTypes THEN ParentOf(n)
    ELSE NearestFunction(ParentOf(n))

RECURSIVE IsInside(_, _)
IsInside(m, f) == m # 0 /\ (ParentOf(m) = f \/ IsInside(ParentOf(m), f))

\* The call expressions below node f, at any depth.
CallsOf(f) == { m \in 1 .. Len(file) : NodeType(m) = "CallExpression" /\ IsInside(m, f) }

\* Source order: line ascending, then column ascending.
SortsBefore(a, b) ==
    \/ LocOf(a).line < LocOf(b).line
    \/ LocOf(a).line = LocOf(b).line /\ LocOf(a).column < LocOf(b).column

IsTrigger(r, n) ==
    /\ NodeType(n) = "CallExpression"
    /\ CASE r = "no-ungoverned-tool-call" -> isToolCall(n)
         [] r = "no-unlogged-action" -> isGovernanceCheck(n)
         [] r = "require-consent-check" -> isDataAccessCall(n)
         [] r = "require-budget-check" -> isSpendCall(n)
         [] OTHER -> FALSE
IsPrerequisite(r, n) ==
    /\ NodeType(n) = "CallExpression"
    /\ CASE r = "no-ungoverned-tool-call" -> isGovernanceCheck(n)
         [] r = "no-unlogged-action" -> isAuditLog(n)
         [] r = "require-consent-check" -> isConsentCheck(n)
         [] r = "require-budget-check" -> isBudgetCheck(n)
         [] OTHER -> FALSE

\* Every node of the file has a position.
Located == \A n \in 1 .. Len(file) : HasLoc(n)

\* Every report made at trigger n is located at n's own position.
ReportedAtOwnPosition(n) ==
    \A k \in 1 .. Len(reports) : reports[k].node = n => reports[k].loc = LocOf(n)

\* ------------------------------------------------------------------- C1
\* C1: no-ungoverned-tool-call reports a tool call inside a function exactly
\* once, at the tool call, when no governance check among the calls of its
\* enclosing function sorts strictly before it, and not at all otherwise.
C1_PrecedenceDecides ==
    (rule = "no-ungoverned-tool-call" /\ Located) =>
      \A n \in 1 .. Len(file) :
        (Entered(n) /\ IsTrigger(rule, n) /\ NearestFunction(n) # NoNode) =>
          /\ ReportedAtOwnPosition(n)
          /\ IF \E m \in CallsOf(NearestFunction(n)) :
                    isGovernanceCheck(m) /\ SortsBefore(m, n)
             THEN ReportsAt(n) = 0
             ELSE ReportsAt(n) = 1

\* C1 on nodes without a `parent` property: the same statement for files
\* whose nodes are plain ESTree nodes.
C1_PlainNodes == ~parentLinks => C1_PrecedenceDecides

\* ------------------------------------------------------------------- C2
\* C2: a trigger call with no enclosing function is reported (once) by its
\* rule whatever prerequisite calls the file holds.
C2_TopLevelAlwaysReported ==
    rule \in CallRules =>
      \A n \in 1 .. Len(file) :
        (Entered(n) /\ IsTrigger(rule, n) /\ NearestFunction(n) = NoNode) =>
          ReportsAt(n) = 1 /\ ReportedAtOwnPosition(n)

\* A top-level trigger was reported although a prerequisite stands before it
\* at top level.
C2_Witness ==
    \E n, m \in 1 .. Len(file) :
        /\ Completed(n) /\ IsTrigger(rule, n) /\ NearestFunction(n) = NoNode
        /\ IsPrerequisite(rule, m) /\ NearestFunction(m) = NoNode /\ SortsBefore(m, n)
        /\ ReportsAt(n) = 1

\* ------------------------------------------------------------------- C3
\* C3: in require-consent-check and require-budget-check a guarded call inside
\* a function is reported whenever every check of that function is positioned
\* at or after it; only a check strictly before it suppresses the report.
C3_OrderSensitive ==
    (rule \in {"require-consent-check", "require-budget-check"} /\ Located) =>
      \A n \in 1 .. Len(file) :
        (Entered(n) /\ IsTrigger(rule, n) /\ NearestFunction(n) # NoNode) =>
          /\ (\A m \in CallsOf(NearestFunction(n)) :
                 IsPrerequisite(rule, m) => ~SortsBefore(m, n))
             => ReportsAt(n) >= 1
          /\ ReportsAt(n) = 0
             => \E m \in CallsOf(NearestFunction(n)) :
                    IsPrerequisite(rule, m) /\ SortsBefore(m, n)

\* C3 on nodes without a `parent` property.
C3_PlainNodes == ~parentLinks => C3_OrderSensitive

\* ------------------------------------------------------------------- C4
\* C4: no-unlogged-action reports a governance check inside a function exactly
\* once when the function holds no audit-log call, and not at all when it
\* holds one anywhere (before, after, or in another branch).
C4_OrderInsensitive ==
    rule = "no-unlogged-action" =>
      \A n \in 1 .. Len(file) :
        (Entered(n) /\ IsTrigger(rule, n) /\ NearestFunction(n) # NoNode) =>
          IF \E m \in CallsOf(NearestFunction(n)) : isAuditLog(m)
          THEN ReportsAt(n) = 0
          ELSE ReportsAt(n) = 1

\* C4 on nodes without a `parent` property.
C4_PlainNodes == ~parentLinks => C4_OrderInsensitive

\* ------------------------------------------------- comparisons (C5 - C7)
\* The operators the claims list.
ComparisonOps == {"==", "!=", "===", "!==", "<", "<=", ">", ">="}

\* name holds one of trust, level, tier, clearance, in any letter case
RECURSIVE FoldAll(_)
FoldAll(chars) == IF chars = <<>> THEN <<>>
                  ELSE <<FoldCase(Head(chars))>> \o FoldAll(Tail(chars))
NameMatches(name) ==
    \E i \in 1 .. Len(name) : \E j \in i .. Len(name) :
        SubSeq(FoldAll(name), i, j) \in TRUST_IDENTIFIER_WORDS

\* The identifier names written in an identifier or member expression.
RECURSIVE NamesIn(_)
NamesIn(operand) ==
    IF operand.type = "Identifier" THEN {operand.name}
    ELSE IF operand.type = "MemberExpression"
         THEN NamesIn(operand.object[1]) \cup NamesIn(operand.property[1])
    ELSE {}
TrustLike(operand) == \E name \in NamesIn(operand) : NameMatches(name)

IsNumericLiteral(operand) == operand.type = "Literal" /\ operand.vtype = "number"
NumericWithin(operand, lo, hi) ==
    IsNumericLiteral(operand) /\ lo <= operand.value /\ operand.value <= hi

\* A comparison of a trust-like operand with a numeric literal, in either order.
IsTrustComparison(node) ==
    /\ node.type = "BinaryExpression"
    /\ node.operator \in ComparisonOps
    /\ \/ TrustLike(node.left) /\ IsNumericLiteral(node.right)
       \/ IsNumericLiteral(node.left) /\ TrustLike(node.right)
\* Its literal operand.
LiteralOf(node) == IF IsNumericLiteral(node.right) THEN node.right ELSE node.left

\* The decimal number a sequence of digit characters denotes.
RECURSIVE ParseDecimal(_)
ParseDecimal(digits) ==
    IF digits = <<>> THEN 0
    ELSE 10 * ParseDecimal(SubSeq(digits, 1, Len(digits) - 1))
         + (CHOOSE d \in 0 .. 9 : Digit(d) = digits[Len(digits)])

\* ------------------------------------------------------------------- C5
\* C5: with default options no-hardcoded-trust-level reports a binary
\* expression iff its operator is a comparison and one operand is trust-like
\* and the other a numeric literal in [0, 5]; each comparison at most once.
C5_DefaultRange ==
    (rule = "no-hardcoded-trust-level" /\ options.maxMagicValue.t = "undefined") =>
      \A n \in 1 .. Len(file) :
        (Completed(n) /\ NodeType(n) = "BinaryExpression") =>
          /\ ReportsAt(n) <= 1
          /\ ReportsAt(n) = 1 <=>
               /\ file[n].operator \in ComparisonOps
               /\ \/ TrustLike(file[n].left) /\ NumericWithin(file[n].right, 0, 5)
                  \/ NumericWithin(file[n].left, 0, 5) /\ TrustLike(file[n].right)

\* `level >= 3` was linted with default options and reported.
C5_Witness ==
    /\ rule = "no-hardcoded-trust-level" /\ options.maxMagicValue.t = "undefined"
    /\ Completed(1)
    /\ file[1].operator = ">="
    /\ file[1].left.type = "Identifier" /\ file[1].left.name = Name_level
    /\ NumericWithin(file[1].right, 3, 3)
    /\ ReportsAt(1) = 1

\* ------------------------------------------------------------------- C6
\* C6: with maxMagicValue = M a trust comparison against a numeric literal v
\* is reported for every 0 <= v <= M (and not for v > M).
C6_ConfigurableRange ==
    (rule = "no-hardcoded-trust-level" /\ options.maxMagicValue.t = "number") =>
      \A n \in 1 .. Len(file) :
        (Completed(n) /\ IsTrustComparison(file[n])) =>
          (ReportsAt(n) = 1 <=>
             NumericWithin(LiteralOf(file[n]), 0, options.maxMagicValue.v))

\* C6 as far as the code goes: the literals reported are those in
\* [0, min(5, maxMagicValue)].
C6_RangeCappedAtFive ==
    (rule = "no-hardcoded-trust-level" /\ options.maxMagicValue.t = "number") =>
      \A n \in 1 .. Len(file) :
        (Completed(n) /\ IsTrustComparison(file[n])) =>
          (ReportsAt(n) = 1 <=>
             /\ NumericWithin(LiteralOf(file[n]), 0, options.maxMagicValue.v)
             /\ NumericWithin(LiteralOf(file[n]), 0, 5))

\* ------------------------------------------------------------------- C7
\* The comparison with its operands exchanged (each keeps the place of the
\* operand it replaces).
Mirror(node) ==
    [node EXCEPT !.left = [node.right EXCEPT !.loc = node.left.loc],
                 !.right = [node.left EXCEPT !.loc = node.right.loc]]

\* A report of the rule on comparison `node`: at its literal, carrying its value.
AtLiteralWithValue(r, node) ==
    /\ r.loc = LiteralOf(node).loc
    /\ ParseDecimal(r.data) = LiteralOf(node).value

\* C7: `T op v` is reported iff `v op T` is reported, and either report is
\* located at the literal operand and carries the literal's value.
C7_OperandOrderIrrelevant ==
    rule = "no-hardcoded-trust-level" =>
      \A n \in 1 .. Len(file) :
        (Completed(n) /\ IsTrustComparison(file[n])) =>
          LET mirrored == BinaryExpressionReports(n, Mirror(file[n]), maxMagicValue)
          IN /\ ReportsAt(n) >= 1 <=> mirrored # <<>>
             /\ \A k \in 1 .. Len(reports) :
                    reports[k].node = n => AtLiteralWithValue(reports[k], file[n])
             /\ \A k \in 1 .. Len(mirrored) :
                    AtLiteralWithValue(mirrored[k], Mirror(file[n]))

\* `3 <= level` (literal on the left) was linted and reported at the literal.
C7_Witness ==
    /\ rule = "no-hardcoded-trust-level"
    /\ Completed(1)
    /\ file[1].operator = "<="
    /\ NumericWithin(file[1].left, 3, 3)
    /\ file[1].right.type = "Identifier" /\ file[1].right.name = Name_level
    /\ ReportsAt(1) = 1
    /\ reports[1].side = "left" /\ reports[1].data = <<"3">>

\* ------------------------------------------------------------------- C8
\* A call `X.run(...)` whose receiver X is a caller-supplied tool pattern.
IsSuppliedToolCall(n) ==
    /\ NodeType(n) = "CallExpression"
    /\ Callee(n).type = "MemberExpression" /\ ~Callee(n).computed
    /\ Callee(n).otype = "Identifier" /\ Callee(n).ptype = "Identifier"
    /\ Callee(n).oname \in options.additionalToolPatterns
    /\ Callee(n).pname = "run"
\* A call that uses a caller-supplied check pattern Y as receiver or as method.
IsSuppliedCheck(n) ==
    /\ NodeType(n) = "CallExpression"
    /\ Callee(n).type = "MemberExpression" /\ ~Callee(n).computed
    /\ Callee(n).otype = "Identifier" /\ Callee(n).ptype = "Identifier"
    /\ \/ Callee(n).oname \in options.additionalCheckPatterns
       \/ Callee(n).pname \in options.additionalCheckPatterns

\* C8: with additionalToolPatterns holding X, a call X.run() is a tool call and
\* is reported when ungoverned; with additionalCheckPatterns holding Y, a call
\* using Y before a tool call satisfies the precedence requirement.
C8_CallerVocabularyExtends ==
    rule = "no-ungoverned-tool-call" =>
      \A n \in 1 .. Len(file) :
        /\ (Completed(n) /\ IsSuppliedToolCall(n)) =>
              \/ ReportsAt(n) = 1
              \/ /\ NearestFunction(n) # NoNode
                 /\ \E m \in CallsOf(NearestFunction(n)) :
                        (isGovernanceCheck(m) \/ IsSuppliedCheck(m)) /\ SortsBefore(m, n)
        /\ (Completed(n) /\ isToolCall(n) /\ NearestFunction(n) # NoNode
              /\ \E m \in CallsOf(NearestFunction(n)) :
                     IsSuppliedCheck(m) /\ SortsBefore(m, n))
           => ReportsAt(n) = 0

\* ------------------------------------------------------------------- C9
\* C9: a trigger inside a function goes unreported only if a matching call
\* whose own nearest enclosing function is the trigger's nearest enclosing
\* function satisfies the requirement (standing before the trigger, for the
\* precedence rules); calls of outer, sibling or nested functions never do.
C9_NoCrossScopeSatisfaction ==
    (rule \in CallRules /\ Located) =>
      \A n \in 1 .. Len(file) :
        (Completed(n) /\ IsTrigger(rule, n) /\ NearestFunction(n) # NoNode
           /\ ReportsAt(n) = 0)
        => \E m \in 1 .. Len(file) :
              /\ IsPrerequisite(rule, m)
              /\ NearestFunction(m) = NearestFunction(n)
              /\ rule # "no-unlogged-action" => SortsBefore(m, n)

\* C9 as far as the code goes: calls of outer and sibling functions never
\* satisfy a requirement (calls inside nested functions do).
C9_OuterAndSiblingNeverCount ==
    (rule \in CallRules /\ Located) =>
      \A n \in 1 .. Len(file) :
        (Completed(n) /\ IsTrigger(rule, n) /\ NearestFunction(n) # NoNode
           /\ ReportsAt(n) = 0)
        => \E m \in CallsOf(NearestFunction(n)) :
              /\ IsPrerequisite(rule, m)
              /\ rule # "no-unlogged-action" => SortsBefore(m, n)

\* ------------------------------------------------------------------ C10
\* The callee is a bare identifier or a non-computed identifier.identifier.
SimpleCalleeShape(c) ==
    \/ c.type = "Identifier"
    \/ /\ c.type = "MemberExpression" /\ ~c.computed
       /\ c.otype = "Identifier" /\ c.ptype = "Identifier"

\* C10: a call whose callee is not of the simple shape is never reported as a
\* trigger and never satisfies a prerequisite.
C10_OddShapesNeverClassified ==
    rule \in CallRules =>
      \A n \in 1 .. Len(file) :
        /\ (Entered(n) /\ NodeType(n) = "CallExpression"
              /\ ~SimpleCalleeShape(Callee(n)))
           => ReportsAt(n) = 0
        /\ (Completed(n) /\ IsTrigger(rule, n) /\ NearestFunction(n) # NoNode
              /\ ReportsAt(n) = 0)
           => \E m \in CallsOf(NearestFunction(n)) :
                 SimpleCalleeShape(Callee(m)) /\ IsPrerequisite(rule, m)

\* C10 as far as the code goes: a callee whose object or property is not an
\* identifier node is never classified (a computed `o[p]` with identifier p is).
C10_NonIdentifierPartsNeverClassified ==
    rule \in CallRules =>
      \A n \in 1 .. Len(file) :
        (Entered(n) /\ NodeType(n) = "CallExpression"
           /\ Callee(n).type = "MemberExpression"
           /\ (Callee(n).otype # "Identifier" \/ Callee(n).ptype # "Identifier"))
        => ReportsAt(n) = 0 /\ ~IsPrerequisite(rule, n)

\* ------------------------------------------------------------------ C11
Categories == {"governance check", "tool call", "audit log", "consent check",
               "budget check", "data access", "spend call"}
ReceiverSet(cat) ==
    CASE cat = "governance check" -> GOVERNANCE_OBJECT_NAMES
      [] cat = "tool call" -> TOOL_OBJECT_NAMES
      [] cat = "audit log" -> AUDIT_OBJECT_NAMES
      [] cat = "consent check" -> CONSENT_OBJECT_NAMES
      [] cat = "budget check" -> BUDGET_OBJECT_NAMES
      [] cat = "data access" -> DATA_ACCESS_OBJECT_NAMES
      [] cat = "spend call" -> SPEND_OBJECT_NAMES
MethodSet(cat) ==
    CASE cat = "governance check" -> GOVERNANCE_METHOD_NAMES
      [] cat = "tool call" -> TOOL_METHOD_NAMES
      [] cat = "audit log" -> AUDIT_METHOD_NAMES
      [] cat = "consent check" -> CONSENT_METHOD_NAMES
      [] cat = "budget check" -> BUDGET_METHOD_NAMES
      [] cat = "data access" -> DATA_ACCESS_METHOD_NAMES
      [] cat = "spend call" -> SPEND_METHOD_NAMES
\* What the code answers for call n and a category.
Classified(cat, n) ==
    CASE cat = "governance check" -> isGovernanceCheck(n)
      [] cat = "tool call" -> isToolCall(n)
      [] cat = "audit log" -> isAuditLog(n)
      [] cat = "consent check" -> isConsentCheck(n)
      [] cat = "budget check" -> isBudgetCheck(n)
      [] cat = "data access" -> isDataAccessCall(n)
      [] cat = "spend call" -> isSpendCall(n)

\* The names a call is written with, read off its source text: `o.p(...)` has
\* receiver name o and method name p; `f(...)` has function name f; any other
\* callee (o[p], o["p"], a.o.p, f().p) names neither a receiver nor a method.
WrittenDotted(c) == Len(c.text) = 3 /\ c.text[2] = "."
WrittenBare(c) == Len(c.text) = 1
\* The category's table entry for a call written with these names.
InTable(cat, c) ==
    \/ WrittenDotted(c) /\ c.text[1] \in ReceiverSet(cat) /\ c.text[3] \in MethodSet(cat)
    \/ cat = "audit log" /\ WrittenBare(c) /\ c.text[1] \in AUDIT_FUNCTION_NAMES

TriggerCategory(r) ==
    CASE r = "no-ungoverned-tool-call" -> "tool call"
      [] r = "no-unlogged-action" -> "governance check"
      [] r = "require-consent-check" -> "data access"
      [] r = "require-budget-check" -> "spend call"

\* C11: a call the rule has visited is classified into a category iff its receiver and method names
\* are in the category's two sets (or, for audit log, its callee is a bare
\* name of the function set); a top-level call is reported iff the table puts
\* it in the rule's trigger category, whatever its position among the calls.
C11_TablesExactly ==
    rule \in CallRules =>
      \A n \in 1 .. Len(file) :
        (Entered(n) /\ NodeType(n) = "CallExpression") =>
          /\ \A cat \in Categories : Classified(cat, n) <=> InTable(cat, Callee(n))
          /\ (Completed(n) /\ NearestFunction(n) = NoNode)
             => (ReportsAt(n) = 1 <=> InTable(TriggerCategory(rule), Callee(n)))

\* C11 on calls written `o.p(...)` or `f(...)`: for those the tables are
\* followed exactly.
C11_TablesOnWrittenNames ==
    rule \in CallRules =>
      \A n \in 1 .. Len(file) :
        (Entered(n) /\ NodeType(n) = "CallExpression"
           /\ (WrittenDotted(Callee(n)) \/ WrittenBare(Callee(n)))) =>
          /\ \A cat \in Categories : Classified(cat, n) <=> InTable(cat, Callee(n))
          /\ (Completed(n) /\ NearestFunction(n) = NoNode)
             => (ReportsAt(n) = 1 <=> InTable(TriggerCategory(rule), Callee(n)))

\* ------------------------------------------------------------------ C12
\* C12: once a governance check has been inserted immediately before a tool
\* call the rule had reported, the rule no longer reports that tool call.
C12_InsertedCheckSilences ==
    (watched # NoNode /\ Entered(watched)) => ReportsAt(watched) = 0

\* C12 for tool calls inside a function: the inserted check silences the
\* report (a top-level tool call stays reported whatever precedes it).
C12_InsertedCheckSilencesInFunction ==
    (watched # NoNode /\ Entered(watched) /\ NearestFunction(watched) # NoNode)
    => ReportsAt(watched) = 0

\* A tool call inside a function was reported, a check was inserted before it,
\* and the second run has passed the tool call without reporting it.
C12_Witness ==
    /\ watched # NoNode /\ Completed(watched)
    /\ NearestFunction(watched) # NoNode
    /\ isGovernanceCheck(watched - 1) /\ SortsBefore(watched - 1, watched)
    /\ ReportsAt(watched) = 0

\* ------------------------------------------------------------------ C13
\* Position a is at or before position b, by line and then column.
AtOrBefore(a, b) == a.line < b.line \/ (a.line = b.line /\ a.column <= b.column)

\* C13: the reports a rule has made are in ascending (line, column) order of
\* their locations.
C13_ReportsInSourceOrder ==
    \A j, k \in 1 .. Len(reports) :
        (j < k /\ reports[j].loc # NoLoc /\ reports[k].loc # NoLoc)
        => AtOrBefore(reports[j].loc, reports[k].loc)

\* C13 for the four call-based rules, which report at the call they visit.
C13_CallReportsInSourceOrder ==
    rule \in CallRules => C13_ReportsInSourceOrder

\* ------------------------------------------------------------------ C15
\* What the rule flags with the default maxMagicValue = 5.
FlaggedByDefault(node) ==
    /\ node.operator \in ComparisonOps
    /\ \/ TrustLike(node.left) /\ NumericWithin(node.right, 0, 5)
       \/ NumericWithin(node.left, 0, 5) /\ TrustLike(node.right)

\* C15: with a string for maxMagicValue the rule reports exactly what it
\* reports with the default 5.
C15_InvalidFallsBackToDefault ==
    (rule = "no-hardcoded-trust-level" /\ options.maxMagicValue.t = "string") =>
      \A n \in 1 .. Len(file) :
        (Completed(n) /\ NodeType(n) = "BinaryExpression") =>
          (ReportsAt(n) = 1 <=> FlaggedByDefault(file[n]))

\* C15 as far as the code goes: a string is converted by `<=`; a string of
\* digits acts as that number (capped at 5), any other string flags nothing.
C15_StringIsConverted ==
    (rule = "no-hardcoded-trust-level" /\ options.maxMagicValue.t = "string") =>
      \A n \in 1 .. Len(file) :
        (Completed(n) /\ NodeType(n) = "BinaryExpression") =>
          (ReportsAt(n) = 1 <=>
             /\ FlaggedByDefault(file[n])
             /\ options.maxMagicValue.s # <<>>
             /\ \A i \in 1 .. Len(options.maxMagicValue.s) :
                    options.maxMagicValue.s[i] \in DigitChars
             /\ LiteralOf(file[n]).value <= ParseDecimal(options.maxMagicValue.s))

\* ------------------------------------------------------------------ C16
PrecedenceRules == {"no-ungoverned-tool-call", "require-consent-check", "require-budget-check"}

\* The calls of the file that have no position, as a list of candidates.
UnlocatedCalls ==
    SelectSeq([i \in 1 .. Len(file) |-> i],
              LAMBDA m : NodeType(m) = "CallExpression" /\ ~HasLoc(m))

\* C16: a candidate without a position never precedes any target, so a
\* trigger inside a function goes unreported only on account of a matching
\* call that has a position.
C16_UnlocatedNeverPrecedes ==
    /\ \A target \in Nodes :
          ~anyCallPrecedesNode(UnlocatedCalls, target, [m \in Nodes |-> TRUE])
    /\ rule \in PrecedenceRules =>
         \A n \in 1 .. Len(file) :
           (Completed(n) /\ IsTrigger(rule, n) /\ NearestFunction(n) # NoNode
              /\ ReportsAt(n) = 0)
           => \E m \in CallsOf(NearestFunction(n)) : IsPrerequisite(rule, m) /\ HasLoc(m)

\* A trigger inside a function was reported although a matching call without
\* a position is written before it in the same function.
C16_Witness ==
    /\ rule \in PrecedenceRules
    /\ \E n, m \in 1 .. Len(file) :
         /\ Completed(n) /\ IsTrigger(rule, n) /\ NearestFunction(n) # NoNode
         /\ m < n /\ IsPrerequisite(rule, m) /\ ~HasLoc(m) /\ HasLoc(n)
         /\ NearestFunction(m) = NearestFunction(n)
         /\ ReportsAt(n) = 1

\* ----------------------------------------------------- quick fixes (C17, C18)
CommentMarker(lang) == IF lang = "python" THEN "#" ELSE "//"
\* The quick fixes on offer or applied, as (rule code, inserted text) pairs.
OfferedFixes ==
    IF phase \in {"offered", "applied"}
    THEN { [code |-> actions[k].diagnostics[1].code, text |-> actions[k].insertText] :
             k \in 1 .. Len(actions) }
    ELSE {}

\* The tokens of a line that are code: those before its first comment marker.
RECURSIVE CodeTokens(_, _)
CodeTokens(tokens, lang) ==
    IF tokens = <<>> \/ Head(tokens) = CommentMarker(lang) THEN <<>>
    ELSE <<Head(tokens)>> \o CodeTokens(Tail(tokens), lang)

\* The line is a comment that carries a TODO marker.
IsTodoCommentLine(line, lang) ==
    /\ line.tokens # <<>> /\ line.tokens[1] = CommentMarker(lang)
    /\ \E i \in 2 .. Len(line.tokens) : line.tokens[i] = "TODO:"
\* The line is only a comment, an import, or a declaration of a name.
IsStubLine(line, lang) ==
    LET code == CodeTokens(line.tokens, lang)
    IN \/ code = <<>>
       \/ code[1] \in {"import", "from", "const"}
       \/ Len(code) >= 2 /\ code[2] = "="
\* The line's code calls a governance check or an audit log of the tables.
HasGovernanceCall(line, lang) ==
    LET code == CodeTokens(line.tokens, lang)
    IN \/ \E i \in 1 .. Len(code) - 3 :
            /\ code[i + 1] = "." /\ code[i + 3] = "("
            /\ \/ code[i] \in GOVERNANCE_OBJECT_NAMES /\ code[i + 2] \in GOVERNANCE_METHOD_NAMES
               \/ code[i] \in AUDIT_OBJECT_NAMES /\ code[i + 2] \in AUDIT_METHOD_NAMES
       \/ \E i \in 1 .. Len(code) - 1 :
            code[i] \in AUDIT_FUNCTION_NAMES /\ code[i + 1] = "("
\* The text is an inert placeholder.
IsInert(text, lang) ==
    \A i \in 1 .. Len(text) : IsStubLine(text[i], lang) /\ ~HasGovernanceCall(text[i], lang)

\* ------------------------------------------------------------------ C17
\* C17: the text of every quick fix is an inert placeholder: comment, import
\* and declaration lines only, with no governance-check or audit-log call.
C17_FixesAreInert ==
    /\ \A fix \in OfferedFixes : IsInert(fix.text, languageId)
    /\ IsInert(inserted, languageId)

\* C17 as far as the code goes: the fixes of AUMOS-001, 002, 003 and 005 are
\* inert (those of AUMOS-004 and AUMOS-006 insert a call).
C17_WrapperAndImportFixesAreInert ==
    \A fix \in OfferedFixes :
        fix.code \notin {RULE_MISSING_TRUST_CHECK, RULE_MISSING_AUDIT_LOG}
        => IsInert(fix.text, languageId)

\* ------------------------------------------------------------------ C18
\* C18: the text of every quick fix holds a TODO comment line.
C18_FixesCarryTodoComment ==
    /\ \A fix \in OfferedFixes :
          \E i \in 1 .. Len(fix.text) : IsTodoCommentLine(fix.text[i], languageId)
    /\ phase = "applied" =>
          \E i \in 1 .. Len(inserted) : IsTodoCommentLine(inserted[i], languageId)

\* C18 as far as the code goes: the fixes of AUMOS-001 .. 004 open with a TODO
\* comment line (those of AUMOS-005 and AUMOS-006 have none).
C18_FirstFourCarryTodoComment ==
    \A fix \in OfferedFixes :
        fix.code \notin {RULE_HARDCODED_TRUST_LEVEL, RULE_MISSING_AUDIT_LOG}
        => IsTodoCommentLine(fix.text[1], languageId)

\* ------------------------------------------------------- C19 and C20
\* The scopes collectCallExpressions has been called on: the enclosing
\* function of every trigger the rule has visited inside a function.
CollectedScopes ==
    IF rule \in CallRules
    THEN { NearestFunction(n) :
             n \in { m \in 1 .. Len(file) :
                       Entered(m) /\ IsTrigger(rule, m) /\ NearestFunction(m) # NoNode } }
    ELSE {}

\* The call expressions at or below node f, in pre-order.
CallsInPreOrder(f) ==
    SelectSeq([i \in 1 .. Len(file) |-> i],
              LAMBDA m : NodeType(m) = "CallExpression" /\ (m = f \/ IsInside(m, f)))

\* ------------------------------------------------------------------ C19
\* C19: every call of collectCallExpressions returns, with nothing from
\* outside the scope's subtree, and no listener throws.
C19_CollectTerminatesInSubtree ==
    /\ ~crashed
    /\ \A f \in CollectedScopes :
          LET r == collectCallExpressions(f)
          IN /\ ~r.over
             /\ \A k \in 1 .. Len(r.res) : r.res[k] = f \/ IsInside(r.res[k], f)

\* C19 on nodes without a `parent` property.
C19_PlainNodes == ~parentLinks => C19_CollectTerminatesInSubtree

\* ------------------------------------------------------------------ C20
\* C20: collectCallExpressions(scope) returns exactly the call expressions at
\* or below scope, each once, in pre-order, which is ascending source order;
\* stated of the scopes the rules collect and of the calls the walk meets there.
C20_CollectsEveryCallOnce ==
    \A f \in CollectedScopes \cup UNION { CallsOf(g) : g \in CollectedScopes } :
        LET r == collectCallExpressions(f)
        IN /\ ~r.over
           /\ r.res = CallsInPreOrder(f)
           /\ Located =>
                \A j, k \in 1 .. Len(r.res) :
                    j < k => AtOrBefore(LocOf(r.res[j]), LocOf(r.res[k]))

\* C20 on nodes without a `parent` property.
C20_PlainNodes == ~parentLinks => C20_CollectsEveryCallOnce

\* ------------------------------------------------------------------ C21
\* C21: for every call the rule has visited, findEnclosingFunction gives the
\* nearest function-like node up the parent chain, and null exactly when the
\* chain holds none; so a trigger goes unreported only when a prerequisite
\* lies in its innermost function.
C21_InnermostFunction ==
    rule \in CallRules =>
      \A n \in 1 .. Len(file) :
        (Entered(n) /\ NodeType(n) = "CallExpression") =>
          /\ findEnclosingFunction(n, Ancestors(n)) = NearestFunction(n)
          /\ findEnclosingFunction(n, Ancestors(n)) = NoNode
               <=> \A a \in 0 .. Len(file) : IsInside(n, a) => NodeType(a) \notin FunctionTypes
          /\ (Completed(n) /\ IsTrigger(rule, n) /\ ReportsAt(n) = 0)
             => /\ NearestFunction(n) # NoNode
                /\ \E m \in CallsOf(NearestFunction(n)) : IsPrerequisite(rule, m)

\* A trigger inside a closure nested in a function was reported although a
\* prerequisite precedes it in the outer function.
C21_Witness ==
    /\ rule \in PrecedenceRules /\ ~parentLinks
    /\ \E n, m \in 1 .. Len(file) :
         /\ Completed(n) /\ IsTrigger(rule, n)
         /\ NearestFunction(n) # NoNode /\ NearestFunction(NearestFunction(n)) # NoNode
         /\ IsPrerequisite(rule, m) /\ HasLoc(m) /\ HasLoc(n) /\ SortsBefore(m, n)
         /\ NearestFunction(m) = NearestFunction(NearestFunction(n))
         /\ ReportsAt(n) = 1

\* ------------------------------------------------------------------ C22
\* C22: a trigger inside a function that has no position is reported, whatever
\* calls its function holds.
C22_UnlocatedTargetReported ==
    rule \in PrecedenceRules =>
      \A n \in 1 .. Len(file) :
        (Completed(n) /\ IsTrigger(rule, n) /\ NearestFunction(n) # NoNode /\ ~HasLoc(n))
        => ReportsAt(n) = 1

\* C22 as far as the code goes: a trigger without a position counts as written
\* after every call that has one, so it is reported iff its function holds no
\* prerequisite with a position (before or after it).
C22_UnlocatedTargetAfterEveryLocated ==
    rule \in PrecedenceRules =>
      \A n \in 1 .. Len(file) :
        (Completed(n) /\ IsTrigger(rule, n) /\ NearestFunction(n) # NoNode /\ ~HasLoc(n))
        => (ReportsAt(n) = 1 <=>
              ~\E m \in CallsOf(NearestFunction(n)) : IsPrerequisite(rule, m) /\ HasLoc(m))

\* ------------------------------------------------------------------ C23
\* The categories the code puts call n in.
CategoriesOf(n) == { cat \in Categories : Classified(cat, n) }

\* C23: no two categories share a (receiver, method) pair, and the bare
\* function names belong to audit log alone; every call the rule has visited
\* is in at most one category, and a trigger is never its own prerequisite.
C23_CategoriesExclusive ==
    /\ \A c1, c2 \in Categories :
          (c1 # c2 /\ ReceiverSet(c1) \cap ReceiverSet(c2) # {})
          => MethodSet(c1) \cap MethodSet(c2) = {}
    /\ rule \in CallRules =>
         \A n \in 1 .. Len(file) :
           (Entered(n) /\ NodeType(n) = "CallExpression") =>
             /\ Cardinality(CategoriesOf(n)) <= 1
             /\ IsTrigger(rule, n) => ~IsPrerequisite(rule, n)

\* `tokens.check()` and `tokens.use()` were both visited by require-budget-check:
\* the first is a budget check only, the second a spend call only, and reported.
C23_Witness ==
    /\ rule = "require-budget-check"
    /\ \E n, m \in 1 .. Len(file) :
         /\ Completed(n) /\ Completed(m)
         /\ Callee(m).oname = "tokens" /\ Callee(m).pname = "check"
         /\ CategoriesOf(m) = {"budget check"}
         /\ Callee(n).oname = "tokens" /\ Callee(n).pname = "use"
         /\ CategoriesOf(n) = {"spend call"}
         /\ NearestFunction(n) = NoNode /\ ReportsAt(n) = 1 /\ ReportsAt(m) = 0

\* ------------------------------------------- editor diagnostics (C24, C25)
\* `published` is the analysis of the document as it is now.
PublishedIsCurrent ==
    document # <<>> /\ phase \in {"analyzed", "asked", "offered", "idle", "rechecked"}
\* The rule has a published diagnostic on line l of the document (l from 1).
FlaggedBy(code, l) ==
    \E k \in 1 .. Len(published) : published[k].code = code /\ published[k].line = l - 1
\* Where on a line one of the patterns matches first (0: nowhere).
FirstMatch(patterns, tokens) ==
    IF testAny(patterns, tokens)
    THEN CHOOSE i \in 1 .. Len(tokens) :
           /\ \E p \in 1 .. Len(patterns) : matchAt(patterns[p], tokens, i)
           /\ \A j \in 1 .. i - 1 : \A p \in 1 .. Len(patterns) : ~matchAt(patterns[p], tokens, j)
    ELSE 0
HasToolInvocation(l) == testAny(LANGCHAIN_TOOL_CALL_PATTERNS, document[l].tokens)
HasTrustCheck(l) == test(TRUST_CHECK_PATTERN, document[l].tokens)
\* A trust check stands on line l to the left of the tool invocation.
TrustCheckEarlierOnLine(l) ==
    \E i \in 1 .. FirstMatch(LANGCHAIN_TOOL_CALL_PATTERNS, document[l].tokens) - 1 :
        matchAt(TRUST_CHECK_PATTERN, document[l].tokens, i)
\* The lines at most `window` lines above line l.
LinesAbove(l, window) == { m \in 1 .. Len(document) : m < l /\ l - m <= window }
\* The lines at most `window` lines away from line l, l itself excluded.
LinesAround(l, window) ==
    { m \in 1 .. Len(document) : m # l /\ m - l <= window /\ l - m <= window }

\* ------------------------------------------------------------------ C24
\* C24: a line with a tool invocation has an AUMOS-004 diagnostic if and only
\* if no trust check precedes the invocation within 20 lines, that is, on one
\* of the 20 lines above or earlier on the same line; a check after the
\* invocation or more than 20 lines above does not count.
C24_FlaggedIffNoPrecedingCheck ==
    PublishedIsCurrent =>
      \A l \in 1 .. Len(document) :
        HasToolInvocation(l) =>
          (FlaggedBy(RULE_MISSING_TRUST_CHECK, l)
           <=> ~(\/ \E m \in LinesAbove(l, 20) : HasTrustCheck(m)
                 \/ TrustCheckEarlierOnLine(l)))

\* C24 as far as the code goes: only the 20 lines above count; a check on the
\* line of the invocation never does.
C24_FlaggedIffNoCheckOnLinesAbove ==
    PublishedIsCurrent =>
      \A l \in 1 .. Len(document) :
        HasToolInvocation(l) =>
          (FlaggedBy(RULE_MISSING_TRUST_CHECK, l)
           <=> ~\E m \in LinesAbove(l, 20) : HasTrustCheck(m))

\* ------------------------------------------------------------------ C25
HasOpenAICall(l) == testAny(OPENAI_RAW_CALL_PATTERNS, document[l].tokens)
HasDecision(l) == testAny(GOVERNANCE_DECISION_PATTERN, document[l].tokens)
HasWrapperReference(l) == testNames(GOVERNED_OPENAI_PATTERN, document[l].tokens)
HasCallback(l) == testNames(GOVERNANCE_CALLBACK_PATTERN, document[l].tokens)
HasAuditLog(l) == testAny(AUDIT_LOG_PATTERN, document[l].tokens)
\* The lines at most `window` lines below line l.
LinesBelow(l, window) == { m \in 1 .. Len(document) : l < m /\ m - l <= window }

\* C25: every context-dependent check reads a window of 20, 30 or 40 lines at
\* the flagged line and nothing outside it. AUMOS-001 is suppressed exactly by
\* a wrapper reference within 30 lines of the raw call; AUMOS-003 by a callback
\* within 40 lines; AUMOS-004 by a check on the 20 lines above; AUMOS-006 by an
\* audit log below, which counts when it is within 20 lines and never when it
\* is more than 40 lines away.
C25_FixedWindows ==
    PublishedIsCurrent =>
      \A l \in 1 .. Len(document) :
        /\ HasOpenAICall(l) =>
             (FlaggedBy(RULE_UNGOVERNED_OPENAI, l)
              <=> ~\E m \in LinesAround(l, 30) \cup {l} : HasWrapperReference(m))
        /\ HasToolInvocation(l) =>
             /\ FlaggedBy(RULE_UNGOVERNED_LANGCHAIN, l)
                <=> ~\E m \in LinesAround(l, 40) : HasCallback(m)
             /\ FlaggedBy(RULE_MISSING_TRUST_CHECK, l)
                <=> ~\E m \in LinesAbove(l, 20) : HasTrustCheck(m)
        /\ HasDecision(l) =>
             /\ (\E m \in LinesBelow(l, 20) : HasAuditLog(m))
                => ~FlaggedBy(RULE_MISSING_AUDIT_LOG, l)
             /\ (~\E m \in LinesBelow(l, 40) : HasAuditLog(m))
                => FlaggedBy(RULE_MISSING_AUDIT_LOG, l)

\* C25 as far as the code goes: AUMOS-001 reads the whole document, AUMOS-003
\* the 40 lines above and below, AUMOS-004 the 20 lines above, AUMOS-006 the
\* 15 lines below.
C25_WindowsOfTheCode ==
    PublishedIsCurrent =>
      \A l \in 1 .. Len(document) :
        /\ HasOpenAICall(l) =>
             (FlaggedBy(RULE_UNGOVERNED_OPENAI, l)
              <=> ~\E m \in 1 .. Len(document) : HasWrapperReference(m))
        /\ HasToolInvocation(l) =>
             /\ FlaggedBy(RULE_UNGOVERNED_LANGCHAIN, l)
                <=> ~\E m \in LinesAround(l, 40) : HasCallback(m)
             /\ FlaggedBy(RULE_MISSING_TRUST_CHECK, l)
                <=> ~\E m \in LinesAbove(l, 20) : HasTrustCheck(m)
        /\ HasDecision(l) =>
             (FlaggedBy(RULE_MISSING_AUDIT_LOG, l)
              <=> ~\E m \in LinesBelow(l, 15) : HasAuditLog(m))

\* ------------------------------------------------------------------ C30
\* The diagnostic the applied quick fix is attached to, and the line (from 0)
\* its flagged line has moved to through the insertion.
FixedDiagnostic == applied.diagnostics[1]
ShiftedLine ==
    IF applied.position.line <= FixedDiagnostic.line
    THEN FixedDiagnostic.line + Len(inserted)
    ELSE FixedDiagnostic.line
StillFlagged ==
    \E k \in 1 .. Len(published) :
        published[k].code = FixedDiagnostic.code /\ published[k].line = ShiftedLine

\* C30: once a quick fix has been applied and the document analysed again, the
\* rule of the fix has no diagnostic on the line the fix was offered for.
C30_FixResolvesDiagnostic ==
    phase = "rechecked" => ~StillFlagged

\* C30 as far as the code goes: it holds of every fix but that of AUMOS-005,
\* which leaves the literal in place.
C30_FixResolvesAllButHardcodedLevel ==
    phase = "rechecked" =>
      (StillFlagged <=> FixedDiagnostic.code = RULE_HARDCODED_TRUST_LEVEL)

\* ------------------------------------------ the diagnostic collection (C26)
Supported(uri) == documents[uri].languageId \in SUPPORTED_LANGUAGES
\* What analyzeDocument gives for the document's text as it is now.
CurrentAnalysis(uri) ==
    analyzeDocument(documents[uri].text, documents[uri].languageId, configuration.severity)
\* The events upon which the handler calls refreshDiagnostics on event.uri.
RefreshedBy ==
    \/ event.kind \in {"activate", "focus", "lint"} /\ event.uri # NoEditor
    \/ event.kind = "save" /\ configuration.checkOnSave
    \/ event.kind = "edit" /\ configuration.checkOnType

\* ------------------------------------------------------------------ C26
\* C26: refreshDiagnostics leaves the collection exactly as it was when the
\* extension is disabled or the document's language is unsupported; otherwise
\* the document's entry becomes the analysis of its current text and nothing
\* else changes. Stated of a call on any open document in any reachable
\* workspace, and of the calls the handlers have made.
C26_RefreshIsNoOpOrReplaces ==
    /\ \A uri \in Open :
         LET after == refreshDiagnostics(documents, uri, collection, configuration)
         IN IF ~configuration.enabled \/ ~Supported(uri)
            THEN after = collection
            ELSE after = [collection EXCEPT ![uri] = Entry(CurrentAnalysis(uri))]
    /\ (RefreshedBy /\ configuration.enabled /\ Supported(event.uri))
       => collection[event.uri] = Entry(CurrentAnalysis(event.uri))

\* C26 as far as the code goes: a call is a no-op for an unsupported language
\* while the extension is enabled; while it is disabled the call deletes the
\* document's entry.
C26_RefreshDeletesWhenDisabled ==
    /\ \A uri \in Open :
         LET after == refreshDiagnostics(documents, uri, collection, configuration)
         IN CASE ~configuration.enabled -> after = [collection EXCEPT ![uri] = NoEntry]
              [] configuration.enabled /\ ~Supported(uri) -> after = collection
              [] OTHER -> after = [collection EXCEPT ![uri] = Entry(CurrentAnalysis(uri))]
    /\ (RefreshedBy /\ configuration.enabled /\ Supported(event.uri))
       => collection[event.uri] = Entry(CurrentAnalysis(event.uri))
    /\ (RefreshedBy /\ ~configuration.enabled) => collection[event.uri] = NoEntry

\* ------------------------------------------------------------------ C27
\* The event handled last was on an enabled extension and a supported document.
OnSupportedWhileEnabled ==
    /\ configuration.enabled
    /\ event.uri # NoEditor
    /\ Supported(event.uri)
IsRecomputed == collection[event.uri] = Entry(CurrentAnalysis(event.uri))
\* The step is a save with checkOnSave off or an edit with checkOnType off.
UncheckedSaveOrEdit ==
    \/ event'.kind = "save" /\ ~configuration.checkOnSave
    \/ event'.kind = "edit" /\ ~configuration.checkOnType

\* C27: with the extension enabled, the entry of a supported document is the
\* analysis of its current text after each of: the document being opened, the
\* focus moving to it, a save with checkOnSave on, an edit with checkOnType
\* on, the lint command; and a save with checkOnSave off or an edit with
\* checkOnType off leaves the collection unchanged.
C27_RecomputedOnEveryTrigger ==
    /\ [](OnSupportedWhileEnabled =>
            /\ event.kind \in {"open", "focus", "lint"} => IsRecomputed
            /\ (event.kind = "save" /\ configuration.checkOnSave) => IsRecomputed
            /\ (event.kind = "edit" /\ configuration.checkOnType) => IsRecomputed)
    /\ [][UncheckedSaveOrEdit => collection' = collection]_vars

\* C27 as far as the code goes: every trigger but the document being opened.
C27_RecomputedOnHandledTriggers ==
    /\ [](OnSupportedWhileEnabled =>
            /\ event.kind \in {"activate", "focus", "lint"} => IsRecomputed
            /\ (event.kind = "save" /\ configuration.checkOnSave) => IsRecomputed
            /\ (event.kind = "edit" /\ configuration.checkOnType) => IsRecomputed)
    /\ [][UncheckedSaveOrEdit => collection' = collection]_vars
    /\ [][event'.kind \in {"open", "visible"} => collection' = collection]_vars

\* ------------------------------------------------------------------ C28
\* C28: whatever events have been handled, the collection holds no entry for
\* a document that is closed.
C28_NoEntryForClosedDocument ==
    \A uri \in DOMAIN documents : documents[uri].isClosed => collection[uri] = NoEntry

\* A supported document with a flagged text has just been closed while the
\* extension is enabled and analyses on every edit.
C28_Witness ==
    /\ event.kind = "close"
    /\ documents[event.uri].isClosed
    /\ Supported(event.uri)
    /\ documents[event.uri].text = FlaggedText
    /\ configuration.enabled
    /\ configuration.checkOnType
    /\ collection[event.uri] = NoEntry

\* ------------------------------------------------------------------ C29
\* C29: while the extension is disabled (from the handling of the
\* configuration change that disabled it onwards) the collection holds no
\* diagnostics for any open document, visible or not.
C29_DisabledMeansNoDiagnostics ==
    ~configuration.enabled =>
      \A uri \in Open : collection[uri].diagnostics = <<>>

\* C29 as far as the code goes: the configuration change that disables the
\* extension clears the entries of the visible editors, and while the
\* extension stays disabled no entry is written, entries only go away.
C29_DisablingClearsVisibleEditors ==
    /\ []((event.kind = "configuration" /\ ~configuration.enabled)
           => \A uri \in visibleTextEditors : collection[uri] = NoEntry)
    /\ [][(~configuration.enabled /\ ~configuration'.enabled)
           => \A uri \in DOMAIN collection :
                collection'[uri] = collection[uri] \/ collection'[uri] = NoEntry]_vars

====
